---- MODULE Spec2Model ----
(***************************************************************************)
(* Model of the bulk uploader (src/unnamed/part_001, "bulk-upload.js"):    *)
(* the batch runner processCsvFile, the per-row reconciler                 *)
(* createOrUpdatePost, the duplicate scan findPostByTitle with its title   *)
(* normalisation, the slug lookup findPostBySlug, and the remote primary   *)
(* collection the REST calls read and write.                               *)
(*                                                                         *)
(* Text (titles, slugs, content) is a sequence of one-character strings,   *)
(* so that trimming and normalisation are computed, character by           *)
(* character, the way the JavaScript computes them.                        *)
(***************************************************************************)
EXTENDS Integers, Sequences, FiniteSets, TLC

VARIABLES
    run,                \* number of the run of the program against the remote (1, 2)
    pc,                 \* position of the run in processCsvFile / createOrUpdatePost
    rows,               \* rows loaded from the CSV (loadCsv), in source order
    i,                  \* loop index of the batch loop (0-based, as in the code)
    logResults,         \* module-level accumulator of row results
    result,             \* createOrUpdatePost: the result object of the current row
    postData,           \* createOrUpdatePost: the write payload of the current row
    taxonomy,           \* resolveTerms: the taxonomy being resolved ("" outside it)
    names,              \* resolveTerms: the labels still to resolve, current one first
    termIds,            \* resolveTerms: identifiers resolved so far
    page,               \* findPostByTitle: page counter
    existingPostByTitle,\* createOrUpdatePost: findPostByTitle's return (0 = null)
    existingPostId,     \* createOrUpdatePost: findPostBySlug's return (0 = null)
    calls,              \* remote calls and sleeps issued for the current row, in order
    posts,              \* remote primary collection, most recent first
    nextId,             \* remote: identifier the next created resource receives
    terms,              \* remote: the terms of each taxonomy, [id, name]
    media,              \* remote: number of resources in the media library
    summary,            \* processCsvFile: the returned summary (NoSummary before return)
    clients,            \* the selected entry of clients.json (input)
    env,                \* process.env: the fallback of each configuration key (input)
    currentConfig,      \* module-level configuration, set by initializeClient
    preflight,          \* remote calls issued by the run before its first row
    nIn, nOnce, nTwice, nStage,  \* inputs and outputs of the normalisation checks
    dIn, dOut, dStage,  \* input and output of the drive URL conversion check
    fetched,            \* uploadMedia: the URL the row's download was issued against
    downloaded,         \* uploadMedia: content type of the downloaded response ("" none)
    fsCalls,            \* main: loadCsv and the write of the log file, with their outcome
    exitCode,           \* main: <<code>> once process.exit was called, <<>> before
    logFile,            \* import_log.json on disk: the result list last written (<<>> none)
    progressCallback,   \* processCsvFile: whether an observer was passed (input)
    events,             \* the events the observer has been called with, in order
    other               \* a second processCsvFile invocation: its position, row count, summary

vars == <<run, pc, rows, i, logResults, result, postData, taxonomy, names, termIds, page,
          existingPostByTitle, existingPostId, calls, posts, nextId, terms, media,
          summary, clients, env, currentConfig, preflight, nIn, nOnce, nTwice, nStage,
          dIn, dOut, dStage, fetched, downloaded, fsCalls, exitCode,
          logFile, progressCallback, events, other>>

-----------------------------------------------------------------------------
(* Bounds of the model *)

MaxRows == 2
MaxFrag == 4

(* Program constants *)

perPage == 100
maxPages == 10

-----------------------------------------------------------------------------
(* Text helpers: String.prototype.trim, regular-expression replaces *)

Min(a, b) == IF a < b THEN a ELSE b
Max(a, b) == IF a > b THEN a ELSE b

Whitespace == {" ", "\t"}

Drop(s, n) == SubSeq(s, n + 1, Len(s))

RECURSIVE TrimLeft(_)
TrimLeft(s) ==
    IF s = <<>> THEN <<>>
    ELSE IF Head(s) \in Whitespace THEN TrimLeft(Tail(s)) ELSE s

RECURSIVE TrimRight(_)
TrimRight(s) ==
    IF s = <<>> THEN <<>>
    ELSE IF s[Len(s)] \in Whitespace THEN TrimRight(SubSeq(s, 1, Len(s) - 1)) ELSE s

Trim(s) == TrimRight(TrimLeft(s))

\* !x || !x.trim()
Blank(s) == Trim(s) = <<>>

\* index of the first c in s, 0 when there is none
RECURSIVE IndexOf(_, _)
IndexOf(s, c) ==
    IF s = <<>> THEN 0
    ELSE IF Head(s) = c THEN 1
    ELSE LET j == IndexOf(Tail(s), c) IN IF j = 0 THEN 0 ELSE j + 1

\* .replace(/<[^>]*>/g, '')
RECURSIVE RemoveTags(_)
RemoveTags(s) ==
    IF s = <<>> THEN <<>>
    ELSE IF Head(s) = "<"
         THEN LET j == IndexOf(Tail(s), ">")
              IN  IF j > 0 THEN RemoveTags(Drop(Tail(s), j))
                  ELSE <<"<">> \o RemoveTags(Tail(s))
         ELSE <<Head(s)>> \o RemoveTags(Tail(s))

\* .replace(/literal/g, rep)
RECURSIVE ReplaceAll(_, _, _)
ReplaceAll(s, pat, rep) ==
    IF Len(s) < Len(pat) THEN s
    ELSE IF SubSeq(s, 1, Len(pat)) = pat
         THEN rep \o ReplaceAll(Drop(s, Len(pat)), pat, rep)
         ELSE <<Head(s)>> \o ReplaceAll(Tail(s), pat, rep)

\* .replace(/&[^;]+;/g, '')
RECURSIVE RemoveEntities(_)
RemoveEntities(s) ==
    IF s = <<>> THEN <<>>
    ELSE IF Head(s) = "&"
         THEN LET j == IndexOf(Tail(s), ";")
              IN  IF j >= 2 THEN RemoveEntities(Drop(Tail(s), j))
                  ELSE <<"&">> \o RemoveEntities(Tail(s))
         ELSE <<Head(s)>> \o RemoveEntities(Tail(s))

\* .replace(/\s+/g, ' ')
RECURSIVE CollapseWhitespace(_)
CollapseWhitespace(s) ==
    IF s = <<>> THEN <<>>
    ELSE IF Head(s) \in Whitespace
         THEN <<" ">> \o CollapseWhitespace(TrimLeft(s))
         ELSE <<Head(s)>> \o CollapseWhitespace(Tail(s))

LowerOf(c) ==
    CASE c = "A" -> "a"
      [] c = "B" -> "b"
      [] c = "M" -> "m"
      [] c = "P" -> "p"
      [] OTHER -> c

\* .toLowerCase()
ToLowerCase(s) == [k \in 1..Len(s) |-> LowerOf(s[k])]

EntNbsp == <<"&", "n", "b", "s", "p", ";">>
EntAmp == <<"&", "a", "m", "p", ";">>
EntQuot == <<"&", "q", "u", "o", "t", ";">>
Ent8217 == <<"&", "#", "8", "2", "1", "7", ";">>
Ent8216 == <<"&", "#", "8", "2", "1", "6", ";">>
Ent39 == <<"&", "#", "3", "9", ";">>
Ent038 == <<"&", "#", "0", "3", "8", ";">>

DecodeEntities(s) ==
    LET s1 == ReplaceAll(s, EntNbsp, <<" ">>)
        s2 == ReplaceAll(s1, EntAmp, <<"&">>)
        s3 == ReplaceAll(s2, EntQuot, <<"\"">>)
        s4 == ReplaceAll(s3, Ent8217, <<"'">>)
        s5 == ReplaceAll(s4, Ent8216, <<"'">>)
        s6 == ReplaceAll(s5, Ent39, <<"'">>)
    IN  ReplaceAll(s6, Ent038, <<"&">>)

\* (variant: without the catch-all removal of the remaining entities)
normalizeTitle_NoCatchAll(str) ==
    IF str = <<>> THEN <<>>
    ELSE Trim(ToLowerCase(CollapseWhitespace(DecodeEntities(RemoveTags(str)))))

normalizeTitle(str) ==
    IF str = <<>> THEN <<>>
    ELSE Trim(ToLowerCase(CollapseWhitespace(RemoveEntities(DecodeEntities(RemoveTags(str))))))

-----------------------------------------------------------------------------
(* Values *)

Null == 0

NoError == [msg |-> "null", id |-> Null]
ErrMissingTitle == [msg |-> "Missing required field: title", id |-> Null]
ErrMissingContent == [msg |-> "Missing required field: content", id |-> Null]
ErrDuplicate(id) == [msg |-> "already exists. Duplicate posts are not allowed.", id |-> id]
\* error.message of a failed request, alone or followed by the server's JSON payload
ErrRequest == [msg |-> "Request failed", id |-> Null]
ErrRequestPayload == [msg |-> "Request failed: {payload}", id |-> Null]
\* error.message of a throw of fs.readFileSync
ErrReadFile == [msg |-> "EISDIR: illegal operation on a directory, read", id |-> Null]

Statuses == {"publish", "draft", "pending", "private", "future"}
DEFAULT_STATUS == "draft"

NoPostData == [title |-> <<>>, content |-> <<>>, status |-> "", slug |-> <<>>,
               categories |-> <<>>, tags |-> <<>>, featured_media |-> Null]
NoResult == [rowNumber |-> 0, title |-> <<>>, action |-> "null", postId |-> Null,
             status |-> "null", error |-> NoError]
NoSummary == [total |-> 0, success |-> 0, failed |-> 0, results |-> <<>>]

-----------------------------------------------------------------------------
(* The remote primary collection.  posts lists it in the order of            *)
(* GET /posts?orderby=date&order=desc.  An entry of kind "post" is one       *)
(* resource; an entry of kind "fill" stands for n consecutive resources      *)
(* whose titles and slugs are those of no row (FillTitle, FillSlug).         *)

FillTitle == <<"z">>
FillSlug == <<"z">>

Post(id, title, slug, status) ==
    [kind |-> "post", n |-> 1, id |-> id, title |-> title, slug |-> slug, status |-> status]
Fill(n) ==
    [kind |-> "fill", n |-> n, id |-> Null, title |-> FillTitle, slug |-> FillSlug,
     status |-> "publish"]

RECURSIVE Total(_)
Total(ps) == IF ps = <<>> THEN 0 ELSE Head(ps).n + Total(Tail(ps))

\* position, in the listing, of the first resource of entry k
PositionOf(ps, k) == 1 + Total(SubSeq(ps, 1, k - 1))

\* response.data.length of GET /posts?per_page=perPage&page=p&status=any
PageLength(ps, p) == Max(0, Min(perPage, Total(ps) - (p - 1) * perPage))

\* (variant: the request without status=any, which lists published resources only)
OnPage_PublishedOnly(ps, p) ==
    {k \in DOMAIN ps : /\ ps[k].kind = "post"
                       /\ ps[k].status = "publish"
                       /\ PositionOf(ps, k) > (p - 1) * perPage
                       /\ PositionOf(ps, k) <= p * perPage}

\* entries of kind "post" that lie on page p
OnPage(ps, p) ==
    {k \in DOMAIN ps : /\ ps[k].kind = "post"
                       /\ PositionOf(ps, k) > (p - 1) * perPage
                       /\ PositionOf(ps, k) <= p * perPage}

SetMin(S) == CHOOSE x \in S : \A y \in S : x <= y

SetMax(S) == CHOOSE x \in S : \A y \in S : x >= y

\* (variant: the titles compared as returned, without normalising them)
FirstMatchOnPage_Raw(ps, p, normalizedSearchTitle) ==
    LET m == {k \in OnPage(ps, p) : ps[k].title = normalizedSearchTitle}
    IN  IF m = {} THEN Null ELSE ps[SetMin(m)].id

\* (variant: the loop keeps the last match of the page instead of returning the first)
FirstMatchOnPage_Last(ps, p, normalizedSearchTitle) ==
    LET m == {k \in OnPage(ps, p) : normalizeTitle(ps[k].title) = normalizedSearchTitle}
    IN  IF m = {} THEN Null ELSE ps[SetMax(m)].id

\* the for loop over response.data: the first post of page p whose normalised
\* title is the normalised search title (0 when the page has none)
FirstMatchOnPage(ps, p, normalizedSearchTitle) ==
    LET m == {k \in OnPage(ps, p) : normalizeTitle(ps[k].title) = normalizedSearchTitle}
    IN  IF m = {} THEN Null ELSE ps[SetMin(m)].id

\* GET /posts?slug=s&per_page=1 carries no status parameter: the collection
\* then lists published resources only.  response.data[0].id, or 0.
SlugQuery(ps, s) ==
    LET m == {k \in DOMAIN ps : /\ ps[k].kind = "post"
                                /\ ps[k].slug = s
                                /\ ps[k].status = "publish"}
    IN  IF m = {} THEN Null ELSE ps[SetMin(m)].id

SlugInUse(ps, s) == \E k \in DOMAIN ps : ps[k].slug = s

\* POST /posts: the new resource is the most recent one
ServerCreate(ps, id, data) ==
    <<Post(id, data.title,
           IF data.slug = <<>> \/ SlugInUse(ps, data.slug) THEN <<>> ELSE data.slug,
           data.status)>> \o ps

\* POST /posts/<id>: the fields of the payload overwrite those of the resource
ServerUpdate(ps, id, data) ==
    [k \in DOMAIN ps |->
        IF ps[k].kind = "post" /\ ps[k].id = id
        THEN Post(id, data.title, data.slug, data.status)
        ELSE ps[k]]

PostIds(ps) == {ps[k].id : k \in {j \in DOMAIN ps : ps[j].kind = "post"}}


-----------------------------------------------------------------------------
(* The remote taxonomies and the media library *)

Term(id, name) == [id |-> id, name |-> name]

RECURSIVE Contains(_, _)
Contains(s, sub) ==
    IF Len(s) < Len(sub) THEN FALSE
    ELSE SubSeq(s, 1, Len(sub)) = sub \/ Contains(Tail(s), sub)

\* GET /<taxonomy>?search=name&per_page=100: the terms whose name contains the
\* search string, whatever the case
ServerSearchTerms(ts, search) ==
    SelectSeq(ts, LAMBDA t : Contains(ToLowerCase(t.name), ToLowerCase(search)))

AllTermIds(tt) ==
    {tt.categories[k].id : k \in DOMAIN tt.categories} \cup {tt.tags[k].id : k \in DOMAIN tt.tags}

\* identifier the next created term receives
NextTermId(tt) == 1 + Cardinality(AllTermIds(tt))

-----------------------------------------------------------------------------
(* resolveTerms / getOrCreateTerm: the synchronous pieces *)

\* String.prototype.split(c)
RECURSIVE Split(_, _)
Split(s, c) ==
    LET j == IndexOf(s, c)
    IN  IF j = 0 THEN <<s>> ELSE <<SubSeq(s, 1, j - 1)>> \o Split(Drop(s, j), c)

\* termString.split(',').map(n => n.trim()).filter(Boolean); [] for a blank string
TermNames(termString) ==
    IF Blank(termString) THEN <<>>
    ELSE LET parts == Split(termString, ",")
         IN  SelectSeq([k \in DOMAIN parts |-> Trim(parts[k])], LAMBDA n : n # <<>>)

\* (variant: the names are compared as they are)
ExistingTerm_CaseSensitive(data, trimmedName) ==
    LET m == {k \in DOMAIN data : data[k].name = trimmedName}
    IN  IF m = {} THEN Null ELSE data[SetMin(m)].id

\* searchResponse.data.find(term => term.name.toLowerCase() === trimmedName.toLowerCase())
ExistingTerm(data, trimmedName) ==
    LET m == {k \in DOMAIN data : ToLowerCase(data[k].name) = ToLowerCase(trimmedName)}
    IN  IF m = {} THEN Null ELSE data[SetMin(m)].id

\* (variant: the identifier is pushed whether or not the label resolved)
PushId_Always(ids, id) == Append(ids, id)

\* if (id) termIds.push(id)
PushId(ids, id) == IF id # Null THEN Append(ids, id) ELSE ids

-----------------------------------------------------------------------------
(* createOrUpdatePost: the synchronous pieces *)

\* (variant: the content check left out)
ValidationError_TitleOnly(row) ==
    IF Blank(row.title) THEN ErrMissingTitle ELSE NoError

\* the two validation throws, in their order; NoError when the row is valid
ValidationError(row) ==
    IF Blank(row.title) THEN ErrMissingTitle
    ELSE IF Blank(row.content) THEN ErrMissingContent
    ELSE NoError

\* const postData = {...}, with the optional slug
BuildPostData(row) ==
    [title |-> Trim(row.title),
     content |-> Trim(row.content),
     status |-> IF row.status = "" THEN DEFAULT_STATUS ELSE row.status,
     slug |-> Trim(row.slug),
     categories |-> <<>>, tags |-> <<>>, featured_media |-> Null]

\* const result = {...}
NewResult(row, rowNumber) ==
    [rowNumber |-> rowNumber,
     title |-> IF row.title = <<>> THEN <<"U", "n", "t", "i", "t", "l", "e", "d">> ELSE row.title,
     action |-> "null", postId |-> Null, status |-> "null", error |-> NoError]

\* (variant: the catch block also marks the action)
Caught_MarksAction(res, err) == [res EXCEPT !.error = err, !.action = "failed"]

\* the catch block: result.error = error.message (+ payload)
Caught(res, err) == [res EXCEPT !.error = err]

\* the content types a download answers with
ContentTypes == {"image/png", "text/html"}

\* row.featured_image_path?.trim() || row.featured_image_url?.trim()
ImagePath(row) ==
    IF Trim(row.featured_image_path) # <<>> THEN Trim(row.featured_image_path)
    ELSE Trim(row.featured_image_url)

\* filePathOrUrl.trim().startsWith('http://') || ....startsWith('https://')
IsUrl(path) == path # <<>> /\ Head(path) \in {"http://", "https://"}

\* where createOrUpdatePost stops next, from stage k on (1 categories, 2 tags,
\* 3 featured image, 4 duplicate scan): a stage with nothing to await is passed
RECURSIVE StageFrom(_, _)
StageFrom(k, row) ==
    IF k = 1
    THEN IF TermNames(row.categories) # <<>>
         THEN [pc |-> "termSearch", taxonomy |-> "categories", names |-> TermNames(row.categories)]
         ELSE StageFrom(2, row)
    ELSE IF k = 2
    THEN IF TermNames(row.tags) # <<>>
         THEN [pc |-> "termSearch", taxonomy |-> "tags", names |-> TermNames(row.tags)]
         ELSE StageFrom(3, row)
    ELSE IF k = 3 /\ ImagePath(row) # <<>>
    THEN [pc |-> "media", taxonomy |-> "", names |-> <<>>]
    ELSE [pc |-> "scan", taxonomy |-> "", names |-> <<>>]

\* if (categoryIds.length > 0) postData.categories = categoryIds (and the tags)
AttachTerms(data, tax, ids) ==
    IF ids = <<>> THEN data
    ELSE IF tax = "categories" THEN [data EXCEPT !.categories = ids]
    ELSE [data EXCEPT !.tags = ids]

\* (variant: the loop without its page ceiling)
ScanPage_NoCeiling(ps, p, title) ==
    LET normalizedSearchTitle == normalizeTitle(title)
        len == PageLength(ps, p)
        match == FirstMatchOnPage(ps, p, normalizedSearchTitle)
    IN  IF len = 0 THEN [done |-> TRUE, id |-> Null, page |-> p]
        ELSE IF match # Null THEN [done |-> TRUE, id |-> match, page |-> p]
        ELSE IF len < perPage THEN [done |-> TRUE, id |-> Null, page |-> p]
        ELSE [done |-> FALSE, id |-> Null, page |-> p + 1]

\* (variant: the loop gives up after its first page)
ScanPage_FirstPageOnly(ps, p, title) ==
    LET normalizedSearchTitle == normalizeTitle(title)
        len == PageLength(ps, p)
        match == FirstMatchOnPage(ps, p, normalizedSearchTitle)
    IN  IF len = 0 THEN [done |-> TRUE, id |-> Null, page |-> p]
        ELSE IF match # Null THEN [done |-> TRUE, id |-> match, page |-> p]
        ELSE [done |-> TRUE, id |-> Null, page |-> p]

\* one turn of findPostByTitle's while loop on the response of page p:
\* done = the function returns, id = what it returns, page = the page counter after
ScanPage(ps, p, title) ==
    LET normalizedSearchTitle == normalizeTitle(title)
        len == PageLength(ps, p)
        match == FirstMatchOnPage(ps, p, normalizedSearchTitle)
    IN  IF len = 0 THEN [done |-> TRUE, id |-> Null, page |-> p]
        ELSE IF match # Null THEN [done |-> TRUE, id |-> match, page |-> p]
        ELSE IF len < perPage THEN [done |-> TRUE, id |-> Null, page |-> p]
        ELSE IF p + 1 > maxPages THEN [done |-> TRUE, id |-> Null, page |-> p + 1]
        ELSE [done |-> FALSE, id |-> Null, page |-> p + 1]

\* (variant: the slug lookup left out)
AfterTitleScan_NoSlugLookup(id, data) ==
    IF id # Null THEN "return" ELSE "sleepWrite"

\* (variant: a match does not stop the row)
AfterTitleScan_IgnoresMatch(id, data) ==
    IF data.slug # <<>> THEN "slug" ELSE "sleepWrite"

\* where createOrUpdatePost goes once findPostByTitle has returned id
AfterTitleScan(id, data) ==
    IF id # Null THEN "return"
    ELSE IF data.slug # <<>> THEN "slug"
    ELSE "sleepWrite"

-----------------------------------------------------------------------------
(* convertGoogleDriveUrl (src/debug-meta.js).  A URL is a sequence of           *)
(* characters and of fragments no pattern splits ("https://", a host name,      *)
(* "file", "view", a query string).                                             *)

\* the elements that [a-zA-Z0-9_-] matches
IdChars == {"a", "d", "i", "-", "_", "0", "file", "view", "open", "uc"}

\* (variant: the group without its +, capturing one character)
IdRun_OneChar(s) ==
    IF s # <<>> /\ Head(s) \in IdChars THEN <<Head(s)>> ELSE <<>>

\* ([a-zA-Z0-9_-]+) at the head of s: the longest run, <<>> when there is none
RECURSIVE IdRun(_)
IdRun(s) ==
    IF s # <<>> /\ Head(s) \in IdChars THEN <<Head(s)>> \o IdRun(Tail(s)) ELSE <<>>

\* url.match(/<prefix>([a-zA-Z0-9_-]+)/): the group of the leftmost match,
\* <<>> when nothing matches
RECURSIVE MatchId(_, _)
MatchId(url, prefix) ==
    IF Len(url) <= Len(prefix) THEN <<>>
    ELSE IF SubSeq(url, 1, Len(prefix)) = prefix /\ IdRun(Drop(url, Len(prefix))) # <<>>
    THEN IdRun(Drop(url, Len(prefix)))
    ELSE MatchId(Tail(url), prefix)

\* `https://drive.google.com/uc?export=download&id=${fileId}`
DirectDownload(fileId) ==
    <<"https://", "drive.google.com", "/", "uc", "?", "export=download&", "i", "d", "=">>
       \o fileId

convertGoogleDriveUrl(url) ==
    IF url = <<>> THEN url
    ELSE IF Contains(url, <<"drive.google.com">>)
    THEN LET byPath == MatchId(url, <<"/", "d", "/">>)
             idMatch == IF byPath # <<>> THEN byPath ELSE MatchId(url, <<"i", "d", "=">>)
         IN  IF idMatch # <<>> THEN DirectDownload(idMatch) ELSE url
    ELSE url

-----------------------------------------------------------------------------
(* initializeClient *)

\* a || b on strings
Or(a, b) == IF a # <<>> THEN a ELSE b

\* .replace(/\/$/, '')
StripTrailingSlash(s) ==
    IF s # <<>> /\ s[Len(s)] = "/" THEN SubSeq(s, 1, Len(s) - 1) ELSE s

NoConfig == [WP_SITE |-> <<>>, WP_USER |-> <<>>, WP_APP_PASSWORD |-> <<>>]

\* (variant: the password is not among the required keys)
ConfigMissing_NoPassword(config) ==
    config.WP_SITE = <<>> \/ config.WP_USER = <<>>

\* !config.WP_SITE || !config.WP_USER || !config.WP_APP_PASSWORD
ConfigMissing(config) ==
    config.WP_SITE = <<>> \/ config.WP_USER = <<>> \/ config.WP_APP_PASSWORD = <<>>

\* const config = {...}: each key from the client entry, else from the environment
BuildConfig(entry, environment) ==
    [WP_SITE |-> StripTrailingSlash(Or(entry.wp_site, environment.WP_SITE)),
     WP_USER |-> Or(entry.wp_user, environment.WP_USER),
     WP_APP_PASSWORD |-> Or(entry.wp_app_password, environment.WP_APP_PASSWORD)]

-----------------------------------------------------------------------------
(* Actions of one run of processCsvFile *)

\* an entry of calls: a remote request with its outcome, or a sleep
Call(op, ok) == [op |-> op, ok |-> ok]
Sleep == Call("sleep", TRUE)

batchVars == <<run, rows, i, logResults, summary>>
termLocals == <<taxonomy, names, termIds>>
scanLocals == <<page, existingPostByTitle, existingPostId>>
remoteVars == <<posts, nextId, terms, media>>
normVars == <<nIn, nOnce, nTwice, nStage>>
clientVars == <<clients, env, currentConfig, preflight>>
driveVars == <<dIn, dOut, dStage>>
mediaLocals == <<fetched, downloaded>>
mainVars == <<fsCalls, exitCode, logFile>>
observerVars == <<progressCallback, events>>

\* if (progressCallback) progressCallback({ type, ..., rowNumber, ... })
Event(type, rowNumber) == [type |-> type, rowNumber |-> rowNumber]
Info == Event("info", 0)
Emit(es) == IF progressCallback THEN events \o es ELSE events

\* processCsvFile up to its first await: initializeClient (which throws on a
\* configuration without site, user or password, before anything else is done),
\* the reset of the run state, and the call of checkConnectivity
Start ==
    /\ pc = "start"
    /\ preflight' = <<>>
    /\ LET config == BuildConfig(clients, env)
       IN  IF ConfigMissing(config)
           THEN /\ pc' = "aborted"
                /\ UNCHANGED <<currentConfig, logResults, events>>
           ELSE /\ currentConfig' = config
                /\ logResults' = <<>>
                /\ events' = Emit(<<Info>>)
                /\ pc' = "connectivity"
    /\ UNCHANGED <<run, rows, i, summary, result, postData, calls, clients, env>>
    /\ UNCHANGED <<termLocals, scanLocals, remoteVars, normVars, driveVars, mediaLocals, mainVars, progressCallback, other>>

\* checkConnectivity: GET /posts?per_page=1 (false on any error, and
\* processCsvFile throws); then loadCsv, and the throw on an empty file
CheckConnectivity ==
    /\ pc = "connectivity"
    /\ \E connected \in BOOLEAN :
          /\ preflight' = Append(preflight, Call("GET /posts?per_page=1", connected))
          /\ pc' = IF connected /\ Len(rows) > 0 THEN "loop" ELSE "aborted"
          /\ events' = IF ~connected THEN events
                       ELSE IF Len(rows) = 0 THEN Emit(<<Info, Info>>)
                       ELSE Emit(<<Info, Info, Info, Info>>)
    /\ UNCHANGED <<clients, env, currentConfig, result, postData, calls>>
    /\ UNCHANGED <<batchVars, termLocals, scanLocals, remoteVars, normVars, driveVars, mediaLocals, mainVars, progressCallback, other>>

\* the loop calls createOrUpdatePost(rows[i], i + 1, ...): validation, payload,
\* and on to the first stage that awaits
Begin ==
    /\ pc = "loop"
    /\ i < Len(rows)
    /\ LET row == rows[i + 1]
           err == ValidationError(row)
           next == StageFrom(1, row)
       IN  /\ calls' = <<>>
           /\ existingPostByTitle' = Null
           /\ existingPostId' = Null
           /\ page' = 1
           /\ termIds' = <<>>
           /\ IF err # NoError
              THEN /\ result' = Caught(NewResult(row, i + 1), err)
                   /\ events' = Emit(<<Event("error", i + 1)>>)
                   /\ postData' = NoPostData
                   /\ pc' = "return"
                   /\ taxonomy' = ""
                   /\ names' = <<>>
              ELSE /\ result' = NewResult(row, i + 1)
                   /\ UNCHANGED events
                   /\ postData' = BuildPostData(row)
                   /\ pc' = next.pc
                   /\ taxonomy' = next.taxonomy
                   /\ names' = next.names
    /\ fetched' = <<>>
    /\ downloaded' = ""
    /\ UNCHANGED <<batchVars, remoteVars, normVars, driveVars, clientVars, mainVars, progressCallback, other>>

\* getOrCreateTerm: GET /<taxonomy>?search=... and the find on its response;
\* a failure is swallowed (null)
SearchTerm ==
    /\ pc = "termSearch"
    /\ \E ok \in BOOLEAN :
          LET trimmedName == Trim(Head(names))
              existing == IF ok
                          THEN ExistingTerm(ServerSearchTerms(terms[taxonomy], trimmedName),
                                            trimmedName)
                          ELSE Null
          IN  /\ calls' = Append(calls, Call("GET /terms?search", ok))
              /\ termIds' = PushId(termIds, existing)
              /\ pc' = IF ok /\ existing = Null THEN "termSleepCreate" ELSE "termSleep"
    /\ UNCHANGED <<taxonomy, names, result, postData>>
    /\ UNCHANGED <<batchVars, scanLocals, remoteVars, normVars, driveVars, clientVars, mediaLocals, mainVars, observerVars, other>>

\* getOrCreateTerm: await sleep(delayMs) before the create
SleepBeforeCreateTerm ==
    /\ pc = "termSleepCreate"
    /\ calls' = Append(calls, Sleep)
    /\ pc' = "termCreate"
    /\ UNCHANGED <<result, postData>>
    /\ UNCHANGED <<batchVars, termLocals, scanLocals, remoteVars, normVars, driveVars, clientVars, mediaLocals, mainVars, observerVars, other>>

\* getOrCreateTerm: POST /<taxonomy>; a failure is swallowed (null)
CreateTerm ==
    /\ pc = "termCreate"
    /\ \/ LET id == NextTermId(terms)
          IN  /\ terms' = [terms EXCEPT ![taxonomy] = Append(@, Term(id, Trim(Head(names))))]
              /\ termIds' = PushId(termIds, id)
              /\ calls' = Append(calls, Call("POST /terms", TRUE))
       \/ /\ calls' = Append(calls, Call("POST /terms", FALSE))
          /\ UNCHANGED <<terms, termIds>>
    /\ pc' = "termSleep"
    /\ UNCHANGED <<taxonomy, names, result, postData, posts, nextId, media>>
    /\ UNCHANGED <<batchVars, scanLocals, normVars, driveVars, clientVars, mediaLocals, mainVars, observerVars, other>>

\* resolveTerms: await sleep(delayMs) after each label; after the last label
\* resolveTerms returns and createOrUpdatePost attaches the identifiers
SleepAfterTerm ==
    /\ pc = "termSleep"
    /\ calls' = Append(calls, Sleep)
    /\ IF Len(names) > 1
       THEN /\ names' = Tail(names)
            /\ pc' = "termSearch"
            /\ UNCHANGED <<taxonomy, termIds, postData>>
       ELSE LET next == StageFrom(IF taxonomy = "categories" THEN 2 ELSE 3, rows[i + 1])
            IN  /\ postData' = AttachTerms(postData, taxonomy, termIds)
                /\ termIds' = <<>>
                /\ pc' = next.pc
                /\ taxonomy' = next.taxonomy
                /\ names' = next.names
    /\ UNCHANGED result
    /\ UNCHANGED <<batchVars, scanLocals, remoteVars, normVars, driveVars, clientVars, mediaLocals, mainVars, observerVars, other>>

\* uploadMedia up to its first await: a URL is downloaded; a local file is
\* looked up (missing: null) and read (readFileSync is outside uploadMedia's
\* try, so its throw reaches createOrUpdatePost's catch)
UploadMediaStart ==
    /\ pc = "media"
    /\ IF IsUrl(ImagePath(rows[i + 1]))
       THEN /\ pc' = "download"
            /\ UNCHANGED <<result, events>>
       ELSE \E file \in {"missing", "read", "throws"} :
               /\ pc' = CASE file = "missing" -> "scan"
                          [] file = "read" -> "sleepMedia"
                          [] OTHER -> "return"
               /\ result' = IF file = "throws" THEN Caught(result, ErrReadFile) ELSE result
               /\ events' = IF file = "throws" THEN Emit(<<Event("error", i + 1)>>) ELSE events
    /\ UNCHANGED <<postData, calls>>
    /\ UNCHANGED <<batchVars, termLocals, scanLocals, remoteVars, normVars, driveVars, clientVars, mediaLocals, mainVars, progressCallback, other>>

\* downloadImageFromUrl(filePathOrUrl.trim()): axios.get(imageUrl); the response
\* is returned with the content type of its header; a failure is swallowed (null)
DownloadImage ==
    /\ pc = "download"
    /\ fetched' = ImagePath(rows[i + 1])
    /\ \/ /\ calls' = Append(calls, Call("GET image", TRUE))
          /\ downloaded' \in ContentTypes
          /\ pc' = "sleepMedia"
       \/ /\ calls' = Append(calls, Call("GET image", FALSE))
          /\ pc' = "scan"
          /\ UNCHANGED downloaded
    /\ UNCHANGED <<result, postData>>
    /\ UNCHANGED <<batchVars, termLocals, scanLocals, remoteVars, normVars, driveVars, clientVars, mainVars, observerVars, other>>

\* (variant: the upload is issued without the sleep before it)
SleepBeforeUpload_Skipped ==
    /\ pc = "sleepMedia"
    /\ pc' = "uploadMedia"
    /\ UNCHANGED <<result, postData, calls>>
    /\ UNCHANGED <<batchVars, termLocals, scanLocals, remoteVars, normVars, driveVars, clientVars, mediaLocals, mainVars, observerVars, other>>

\* uploadMedia: await sleep(delayMs) before the upload
SleepBeforeUpload ==
    /\ pc = "sleepMedia"
    /\ calls' = Append(calls, Sleep)
    /\ pc' = "uploadMedia"
    /\ UNCHANGED <<result, postData>>
    /\ UNCHANGED <<batchVars, termLocals, scanLocals, remoteVars, normVars, driveVars, clientVars, mediaLocals, mainVars, observerVars, other>>

\* (variant: a failed upload is rethrown and fails the row)
UploadMediaPost_Throws ==
    /\ pc = "uploadMedia"
    /\ \/ /\ media' = media + 1
          /\ postData' = [postData EXCEPT !.featured_media = media + 1]
          /\ calls' = Append(calls, Call("POST /media", TRUE))
          /\ pc' = "scan"
          /\ UNCHANGED <<result, events>>
       \/ /\ calls' = Append(calls, Call("POST /media", FALSE))
          /\ result' = Caught(result, ErrRequest)
          /\ events' = Emit(<<Event("error", i + 1)>>)
          /\ pc' = "return"
          /\ UNCHANGED <<media, postData>>
    /\ UNCHANGED <<posts, nextId, terms>>
    /\ UNCHANGED <<batchVars, termLocals, scanLocals, normVars, driveVars, clientVars, mainVars, progressCallback, other>>
    /\ downloaded' = ""
    /\ UNCHANGED fetched

\* uploadMedia: POST /media; a failure is swallowed (null); createOrUpdatePost
\* attaches a non-null identifier as featured_media
UploadMediaPost ==
    /\ pc = "uploadMedia"
    /\ \/ /\ media' = media + 1
          /\ postData' = [postData EXCEPT !.featured_media = media + 1]
          /\ calls' = Append(calls, Call("POST /media", TRUE))
       \/ /\ calls' = Append(calls, Call("POST /media", FALSE))
          /\ UNCHANGED <<media, postData>>
    /\ pc' = "scan"
    /\ UNCHANGED <<result, posts, nextId, terms>>
    /\ UNCHANGED <<batchVars, termLocals, scanLocals, normVars, driveVars, clientVars, mainVars, observerVars, other>>
    /\ downloaded' = ""
    /\ UNCHANGED fetched

\* (variant: a failed page request fails the row)
FindPostByTitle_FailsClosed ==
    /\ pc = "scan"
    /\ \E ok \in BOOLEAN :
          LET r == IF ok THEN ScanPage(posts, page, postData.title)
                   ELSE [done |-> TRUE, id |-> Null, page |-> page]
          IN  /\ calls' = Append(calls, Call("GET /posts?page", ok))
              /\ page' = r.page
              /\ IF r.done
                 THEN /\ existingPostByTitle' = r.id
                      /\ pc' = IF ok THEN AfterTitleScan(r.id, postData) ELSE "return"
                      /\ result' = IF r.id # Null THEN Caught(result, ErrDuplicate(r.id))
                                   ELSE IF ~ok THEN Caught(result, ErrRequest)
                                   ELSE result
                      /\ events' = IF r.id # Null \/ ~ok
                                   THEN Emit(<<Event("error", i + 1)>>)
                                   ELSE events
                 ELSE /\ pc' = "scan"
                      /\ UNCHANGED <<existingPostByTitle, result, events>>
    /\ UNCHANGED <<postData, existingPostId>>
    /\ UNCHANGED <<batchVars, termLocals, remoteVars, normVars, driveVars, clientVars, mediaLocals, mainVars, progressCallback, other>>

\* findPostByTitle: one GET /posts page request and the code that follows its
\* response, up to the next await; a failure is swallowed (null).  A match makes
\* createOrUpdatePost throw the duplicate error, which its catch records
FindPostByTitle ==
    /\ pc = "scan"
    /\ \E ok \in BOOLEAN :
          LET r == IF ok THEN ScanPage(posts, page, postData.title)
                   ELSE [done |-> TRUE, id |-> Null, page |-> page]
          IN  /\ calls' = Append(calls, Call("GET /posts?page", ok))
              /\ page' = r.page
              /\ IF r.done
                 THEN /\ existingPostByTitle' = r.id
                      /\ pc' = AfterTitleScan(r.id, postData)
                      /\ result' = IF r.id # Null
                                   THEN Caught(result, ErrDuplicate(r.id))
                                   ELSE result
                      /\ events' = IF r.id # Null
                                   THEN Emit(<<Event("error", i + 1)>>)
                                   ELSE events
                 ELSE /\ pc' = "scan"
                      /\ UNCHANGED <<existingPostByTitle, result, events>>
    /\ UNCHANGED <<postData, existingPostId>>
    /\ UNCHANGED <<batchVars, termLocals, remoteVars, normVars, driveVars, clientVars, mediaLocals, mainVars, progressCallback, other>>

\* findPostBySlug: GET /posts?slug=...; a failure is swallowed (null)
FindPostBySlug ==
    /\ pc = "slug"
    /\ \E ok \in BOOLEAN :
          /\ calls' = Append(calls, Call("GET /posts?slug", ok))
          /\ existingPostId' = IF ok THEN SlugQuery(posts, postData.slug) ELSE Null
    /\ pc' = "sleepWrite"
    /\ UNCHANGED <<result, postData, page, existingPostByTitle>>
    /\ UNCHANGED <<batchVars, termLocals, remoteVars, normVars, driveVars, clientVars, mediaLocals, mainVars, observerVars, other>>

\* await sleep(config.REQUEST_DELAY_MS)
SleepBeforeWrite ==
    /\ pc = "sleepWrite"
    /\ calls' = Append(calls, Sleep)
    /\ pc' = "write"
    /\ UNCHANGED <<result, postData>>
    /\ UNCHANGED <<batchVars, termLocals, scanLocals, remoteVars, normVars, driveVars, clientVars, mediaLocals, mainVars, observerVars, other>>

\* POST /posts/<id> and the branch after it; a failure reaches the catch
UpdatePost ==
    /\ pc = "write"
    /\ existingPostId # Null
    /\ \/ /\ posts' = ServerUpdate(posts, existingPostId, postData)
          /\ result' = [result EXCEPT !.action = "updated", !.postId = existingPostId,
                                      !.status = postData.status]
          /\ calls' = Append(calls, Call("POST /posts/id", TRUE))
          /\ events' = Emit(<<Event("success", i + 1)>>)
       \/ /\ \E err \in {ErrRequest, ErrRequestPayload} : result' = Caught(result, err)
          /\ calls' = Append(calls, Call("POST /posts/id", FALSE))
          /\ events' = Emit(<<Event("error", i + 1)>>)
          /\ UNCHANGED posts
    /\ pc' = "return"
    /\ UNCHANGED <<postData, nextId, terms, media>>
    /\ UNCHANGED <<batchVars, termLocals, scanLocals, normVars, driveVars, clientVars, mediaLocals, mainVars, progressCallback, other>>

\* (variant: the create call outside the try, its failure escaping to the caller)
CreatePost_Uncaught ==
    /\ pc = "write"
    /\ existingPostId = Null
    /\ \/ /\ posts' = ServerCreate(posts, nextId, postData)
          /\ nextId' = nextId + 1
          /\ result' = [result EXCEPT !.action = "created", !.postId = nextId,
                                      !.status = postData.status]
          /\ calls' = Append(calls, Call("POST /posts", TRUE))
          /\ events' = Emit(<<Event("success", i + 1)>>)
          /\ pc' = "return"
       \/ /\ calls' = Append(calls, Call("POST /posts", FALSE))
          /\ pc' = "aborted"
          /\ UNCHANGED <<posts, nextId, result, events>>
    /\ UNCHANGED <<postData, terms, media>>
    /\ UNCHANGED <<batchVars, termLocals, scanLocals, normVars, driveVars, clientVars, mediaLocals, mainVars, progressCallback, other>>

\* (variant: the create branch without its call of the observer)
CreatePost_NoEvent ==
    /\ pc = "write"
    /\ existingPostId = Null
    /\ \/ /\ posts' = ServerCreate(posts, nextId, postData)
          /\ nextId' = nextId + 1
          /\ result' = [result EXCEPT !.action = "created", !.postId = nextId,
                                      !.status = postData.status]
          /\ calls' = Append(calls, Call("POST /posts", TRUE))
          /\ UNCHANGED events
       \/ /\ \E err \in {ErrRequest, ErrRequestPayload} : result' = Caught(result, err)
          /\ calls' = Append(calls, Call("POST /posts", FALSE))
          /\ events' = Emit(<<Event("error", i + 1)>>)
          /\ UNCHANGED <<posts, nextId>>
    /\ pc' = "return"
    /\ UNCHANGED <<postData, terms, media>>
    /\ UNCHANGED <<batchVars, termLocals, scanLocals, normVars, driveVars, clientVars, mediaLocals, mainVars, progressCallback, other>>

\* POST /posts and the branch after it; a failure reaches the catch
CreatePost ==
    /\ pc = "write"
    /\ existingPostId = Null
    /\ \/ /\ posts' = ServerCreate(posts, nextId, postData)
          /\ nextId' = nextId + 1
          /\ result' = [result EXCEPT !.action = "created", !.postId = nextId,
                                      !.status = postData.status]
          /\ calls' = Append(calls, Call("POST /posts", TRUE))
          /\ events' = Emit(<<Event("success", i + 1)>>)
       \/ /\ \E err \in {ErrRequest, ErrRequestPayload} : result' = Caught(result, err)
          /\ calls' = Append(calls, Call("POST /posts", FALSE))
          /\ events' = Emit(<<Event("error", i + 1)>>)
          /\ UNCHANGED <<posts, nextId>>
    /\ pc' = "return"
    /\ UNCHANGED <<postData, terms, media>>
    /\ UNCHANGED <<batchVars, termLocals, scanLocals, normVars, driveVars, clientVars, mediaLocals, mainVars, progressCallback, other>>

\* (variant: only the rows that succeeded are pushed)
Return_SkipFailed ==
    /\ pc = "return"
    /\ logResults' = IF result.error = NoError THEN Append(logResults, result) ELSE logResults
    /\ i' = i + 1
    /\ pc' = "loop"
    /\ UNCHANGED <<run, rows, summary, result, postData, calls>>
    /\ UNCHANGED <<termLocals, scanLocals, remoteVars, normVars, driveVars, clientVars, mediaLocals, mainVars, observerVars, other>>

\* (variant: the loop does not await createOrUpdatePost before it goes on)
Return_NotAwaited ==
    /\ pc \notin {"start", "connectivity", "loadCsv", "loop", "done", "aborted", "exited", "killed"}
    /\ logResults' = Append(logResults, result)
    /\ i' = i + 1
    /\ pc' = "loop"
    /\ UNCHANGED <<run, rows, summary, result, postData, calls>>
    /\ UNCHANGED <<termLocals, scanLocals, remoteVars, normVars, driveVars, clientVars, mediaLocals, mainVars, observerVars, other>>

\* createOrUpdatePost returns; logResults.push(result); i++
\* (variant: the log file is rewritten after every row)
Return_WritesLog ==
    /\ pc = "return"
    /\ logResults' = Append(logResults, result)
    /\ logFile' = logResults'
    /\ i' = i + 1
    /\ pc' = "loop"
    /\ UNCHANGED <<run, rows, summary, result, postData, calls, fsCalls, exitCode>>
    /\ UNCHANGED <<termLocals, scanLocals, remoteVars, normVars, driveVars, clientVars, mediaLocals>>
    /\ UNCHANGED <<observerVars, other>>

Return ==
    /\ pc = "return"
    /\ logResults' = Append(logResults, result)
    /\ i' = i + 1
    /\ pc' = "loop"
    /\ UNCHANGED <<run, rows, summary, result, postData, calls>>
    /\ UNCHANGED <<termLocals, scanLocals, remoteVars, normVars, driveVars, clientVars, mediaLocals, mainVars, observerVars, other>>

\* the rows of the second invocation and their results
OtherCsvRow == [title |-> <<"o">>, content |-> <<>>]
OtherResult(rowNumber) == Caught(NewResult(OtherCsvRow, rowNumber), ValidationError(OtherCsvRow))
OtherIdle(n) == [pc |-> "idle", i |-> 0, n |-> n, summary |-> NoSummary]

CountOf(rs, hasError) ==
    Cardinality({k \in DOMAIN rs : (rs[k].error # NoError) = hasError})

\* after the loop: the log file is written (a write error is swallowed) and the
\* summary is returned
Finish ==
    /\ pc = "loop"
    /\ i >= Len(rows)
    /\ summary' = [total |-> Len(rows),
                   success |-> CountOf(logResults, FALSE),
                   failed |-> CountOf(logResults, TRUE),
                   results |-> logResults]
    /\ \E written \in BOOLEAN :
          /\ fsCalls' = Append(fsCalls, Call("writeFileSync", written))
          /\ logFile' = IF written THEN logResults ELSE logFile
    /\ pc' = "done"
    /\ UNCHANGED <<run, rows, i, logResults, result, postData, calls, exitCode>>
    /\ UNCHANGED <<termLocals, scanLocals, remoteVars, normVars, driveVars, clientVars, mediaLocals>>
    /\ UNCHANGED <<observerVars, other>>

\* main up to its first await: initializeClient; its throw on a configuration
\* without site, user or password rejects main's promise, and the handler on
\* main().catch calls process.exit(1)
MainStart ==
    /\ pc = "start"
    /\ exitCode = <<>>
    /\ LET config == BuildConfig(clients, env)
       IN  IF ConfigMissing(config)
           THEN /\ pc' = "exited"
                /\ exitCode' = <<1>>
                /\ UNCHANGED currentConfig
           ELSE /\ currentConfig' = config
                /\ pc' = "connectivity"
                /\ UNCHANGED exitCode
    /\ UNCHANGED <<clients, env, preflight, fsCalls, logFile, result, postData, calls>>
    /\ UNCHANGED <<batchVars, termLocals, scanLocals, remoteVars, normVars, driveVars, mediaLocals>>
    /\ UNCHANGED <<observerVars, other>>

\* main: checkConnectivity, and process.exit(1) when it returns false
MainCheckConnectivity ==
    /\ pc = "connectivity"
    /\ \E connected \in BOOLEAN :
          /\ preflight' = Append(preflight, Call("GET /posts?per_page=1", connected))
          /\ IF connected
             THEN pc' = "loadCsv" /\ UNCHANGED exitCode
             ELSE pc' = "exited" /\ exitCode' = <<1>>
    /\ UNCHANGED <<clients, env, currentConfig, fsCalls, logFile, result, postData, calls>>
    /\ UNCHANGED <<batchVars, termLocals, scanLocals, remoteVars, normVars, driveVars, mediaLocals>>
    /\ UNCHANGED <<observerVars, other>>

\* main: loadCsv; process.exit(1) when it rejects, process.exit(0) when the
\* file holds no row
LoadCsv ==
    /\ pc = "loadCsv"
    /\ \E loaded \in BOOLEAN :
          /\ fsCalls' = Append(fsCalls, Call("loadCsv", loaded))
          /\ IF ~loaded THEN pc' = "exited" /\ exitCode' = <<1>>
             ELSE IF Len(rows) = 0 THEN pc' = "exited" /\ exitCode' = <<0>>
             ELSE pc' = "loop" /\ UNCHANGED exitCode
    /\ UNCHANGED <<result, postData, calls, logFile>>
    /\ UNCHANGED <<batchVars, termLocals, scanLocals, remoteVars, normVars, driveVars, clientVars, mediaLocals>>
    /\ UNCHANGED <<observerVars, other>>

\* main after the loop: fs.writeFileSync of the log (not in a try: its throw
\* rejects main's promise and the handler calls process.exit(1)), the summary,
\* and process.exit(failedCount > 0 ? 1 : 0)
MainFinish ==
    /\ pc = "loop"
    /\ i >= Len(rows)
    /\ \E written \in BOOLEAN :
          /\ fsCalls' = Append(fsCalls, Call("writeFileSync", written))
          /\ IF written
             THEN /\ summary' = [total |-> Len(rows),
                                 success |-> CountOf(logResults, FALSE),
                                 failed |-> CountOf(logResults, TRUE),
                                 results |-> logResults]
                  /\ exitCode' = IF CountOf(logResults, TRUE) > 0 THEN <<1>> ELSE <<0>>
             ELSE /\ exitCode' = <<1>>
                  /\ UNCHANGED summary
          /\ logFile' = IF written THEN logResults ELSE logFile
    /\ pc' = "exited"
    /\ UNCHANGED <<run, rows, i, logResults, result, postData, calls>>
    /\ UNCHANGED <<termLocals, scanLocals, remoteVars, normVars, driveVars, clientVars, mediaLocals>>
    /\ UNCHANGED <<observerVars, other>>

\* a second invocation of processCsvFile, on a file of n rows that all lack
\* their content (createOrUpdatePost returns their result without awaiting
\* anything): up to its first await it resets the module-level logResults
OtherStart ==
    /\ other.pc = "idle"
    /\ pc \notin {"start", "done", "aborted"}
    /\ logResults' = <<>>
    /\ other' = [other EXCEPT !.pc = "loop"]
    /\ UNCHANGED <<run, pc, rows, i, summary, result, postData, calls>>
    /\ UNCHANGED <<termLocals, scanLocals, remoteVars, normVars, driveVars, clientVars, mediaLocals, mainVars, observerVars>>

\* the second invocation: one iteration of its loop, logResults.push(result)
OtherRow ==
    /\ other.pc = "loop"
    /\ other.i < other.n
    /\ logResults' = Append(logResults, OtherResult(other.i + 1))
    /\ other' = [other EXCEPT !.i = @ + 1]
    /\ UNCHANGED <<run, pc, rows, i, summary, result, postData, calls>>
    /\ UNCHANGED <<termLocals, scanLocals, remoteVars, normVars, driveVars, clientVars, mediaLocals, mainVars, observerVars>>

\* the second invocation after its loop: the log file is written (a write
\* error is swallowed) and its summary is returned
OtherFinish ==
    /\ other.pc = "loop"
    /\ other.i >= other.n
    /\ other' = [other EXCEPT !.pc = "done",
                              !.summary = [total |-> other.n,
                                           success |-> CountOf(logResults, FALSE),
                                           failed |-> CountOf(logResults, TRUE),
                                           results |-> logResults]]
    /\ \E written \in BOOLEAN : logFile' = IF written THEN logResults ELSE logFile
    /\ UNCHANGED <<run, pc, rows, i, logResults, summary, result, postData, calls, fsCalls, exitCode>>
    /\ UNCHANGED <<termLocals, scanLocals, remoteVars, normVars, driveVars, clientVars, mediaLocals, observerVars>>

\* the process is terminated from outside while the run is in progress: nothing
\* of the program runs any more (no handler of a signal or of the exit is
\* installed)
Terminate ==
    /\ pc \notin {"done", "aborted", "exited", "killed"}
    /\ pc' = "killed"
    /\ UNCHANGED <<run, rows, i, logResults, summary, result, postData, calls>>
    /\ UNCHANGED <<termLocals, scanLocals, remoteVars, normVars, driveVars, clientVars, mediaLocals, mainVars, observerVars, other>>

\* the program is run again, over the same rows, against the remote as the
\* first run left it
Rerun ==
    /\ pc = "done"
    /\ run = 1
    /\ run' = 2
    /\ pc' = "start"
    /\ i' = 0
    /\ fsCalls' = <<>>
    /\ UNCHANGED <<rows, logResults, summary, result, postData, calls, exitCode, logFile>>
    /\ UNCHANGED <<termLocals, scanLocals, remoteVars, normVars, driveVars, clientVars, mediaLocals>>
    /\ UNCHANGED <<observerVars, other>>

\* normalizeTitle applied to a string, and to its own output
NormalizeOnce ==
    /\ nStage = 0
    /\ nOnce' = normalizeTitle(nIn)
    /\ nStage' = 1
    /\ UNCHANGED <<nIn, nTwice, result, postData, calls>>
    /\ UNCHANGED <<batchVars, pc, termLocals, scanLocals, remoteVars, clientVars, driveVars, mediaLocals, mainVars, observerVars, other>>

NormalizeTwice ==
    /\ nStage = 1
    /\ nTwice' = normalizeTitle(nOnce)
    /\ nStage' = 2
    /\ UNCHANGED <<nIn, nOnce, result, postData, calls>>
    /\ UNCHANGED <<batchVars, pc, termLocals, scanLocals, remoteVars, clientVars, driveVars, mediaLocals, mainVars, observerVars, other>>

-----------------------------------------------------------------------------
(* Inputs *)

TitleUpper == <<"A">>
TitleMarkup == <<" ", "<", "b", ">", "a", "<", "/", "b", ">">>
TitleEntity == <<"A", "&", "n", "b", "s", "p", ";">>
TitleOther == <<"b">>
SlugS == <<"s">>
SlugX == <<"x">>
Content == <<"c">>
ImageUrl == <<"https://", "cdn.example", "/", "i.png">>
ImageFile == <<"images/", "i.png">>

Row(title, content, slug, status) ==
    [title |-> title, content |-> content, slug |-> slug, status |-> status,
     categories |-> <<>>, tags |-> <<>>,
     featured_image_path |-> <<>>, featured_image_url |-> <<>>,
     meta_title |-> <<>>, meta_description |-> <<>>, focus_keyword |-> <<>>]

ValidRows ==
    { Row(TitleUpper, Content, <<>>, ""),
      Row(TitleMarkup, Content, SlugS, "publish"),
      Row(TitleOther, Content, SlugS, "") }

InvalidRows ==
    { Row(<<" ">>, Content, SlugS, ""),
      Row(TitleOther, <<>>, <<>>, "") }

PlainRows == ValidRows \cup InvalidRows

\* rows with labels and a featured image
RichRows ==
    { [Row(TitleUpper, Content, <<>>, "") EXCEPT
          !.categories = <<"a", ",", " ", "A", ",">>,
          !.featured_image_url = ImageUrl],
      [Row(TitleOther, Content, SlugS, "") EXCEPT
          !.tags = <<"b">>,
          !.featured_image_path = ImageFile],
      [Row(<<>>, Content, <<>>, "") EXCEPT
          !.categories = <<"a">>,
          !.featured_image_url = ImageUrl] }

RECURSIVE SeqsUpTo(_, _)
SeqsUpTo(S, n) ==
    IF n = 0 THEN {<<>>}
    ELSE LET shorter == SeqsUpTo(S, n - 1)
         IN  shorter \cup {Append(q, x) : q \in shorter, x \in S}

\* sizes of the run of other resources that precedes the listed ones
FillSizes == {perPage - 1, perPage, perPage * maxPages - 1, perPage * maxPages}

WithFill(n, ps) == IF n = 0 THEN ps ELSE <<Fill(n)>> \o ps

InitialCollections ==
    {<<>>, <<Fill(perPage * maxPages)>>}
    \cup {<<Post(1, TitleEntity, SlugX, st)>> : st \in Statuses}
    \cup {<<Post(1, TitleOther, SlugS, st)>> : st \in {"publish", "draft"}}
    \cup {<<Fill(n), Post(1, TitleEntity, SlugS, "draft")>> : n \in FillSizes}
    \cup {<<Post(1, TitleOther, SlugS, "publish"), Post(2, TitleEntity, SlugS, "publish")>>}

NoTerms == [categories |-> <<>>, tags |-> <<>>]

InitRunState ==
    /\ run = 1
    /\ pc = "start"
    /\ i = 0
    /\ logResults = <<>>
    /\ result = NoResult
    /\ postData = NoPostData
    /\ taxonomy = ""
    /\ names = <<>>
    /\ termIds = <<>>
    /\ page = 1
    /\ existingPostByTitle = Null
    /\ existingPostId = Null
    /\ calls = <<>>
    /\ nextId = 3
    /\ media = 0
    /\ summary = NoSummary
    /\ currentConfig = NoConfig
    /\ preflight = <<>>
    /\ fetched = <<>>
    /\ downloaded = ""
    /\ fsCalls = <<>>
    /\ exitCode = <<>>
    /\ events = <<>>

\* no second invocation
InitAlone == other = OtherIdle(0)

\* a run that finds no log file of an earlier run and is given no observer
InitLocals == InitRunState /\ logFile = <<>> /\ progressCallback = FALSE /\ InitAlone

\* the log file an earlier run left: one created row
PreviousLog ==
    <<[NewResult(Row(TitleEntity, Content, SlugX, ""), 1) EXCEPT
          !.action = "created", !.postId = 1, !.status = "draft"]>>

\* the client entry and the environment: a configuration whose site comes from
\* the entry (with a trailing slash) and whose user comes from the environment,
\* and configurations that lack the site, the user or the password
SiteUrl == <<"https://", "site", "/">>
ClientEntry(site, user, password) ==
    [wp_site |-> site, wp_user |-> user, wp_app_password |-> password]
Environment(site, user, password) ==
    [WP_SITE |-> site, WP_USER |-> user, WP_APP_PASSWORD |-> password]
ValidClient ==
    [entry |-> ClientEntry(SiteUrl, <<>>, <<"p">>), environment |-> Environment(<<>>, <<"u">>, <<>>)]
InvalidClients ==
    { [entry |-> ClientEntry(<<>>, <<>>, <<"p">>), environment |-> Environment(<<>>, <<"u">>, <<>>)],
      [entry |-> ClientEntry(<<"/">>, <<"u">>, <<"p">>), environment |-> Environment(<<>>, <<>>, <<>>)],
      [entry |-> ClientEntry(SiteUrl, <<>>, <<"p">>), environment |-> Environment(<<>>, <<>>, <<>>)],
      [entry |-> ClientEntry(SiteUrl, <<"u">>, <<>>), environment |-> Environment(SiteUrl, <<"u">>, <<>>)] }

InitClient(inputs) ==
    \E c \in inputs : clients = c.entry /\ env = c.environment

InitNormIdle ==
    /\ nIn = <<>> /\ nOnce = <<>> /\ nTwice = <<>> /\ nStage = 2
    /\ dIn = <<>> /\ dOut = <<>> /\ dStage = 1

\* batches of rows without labels or images, against every initial collection
InitPlain ==
    /\ rows \in SeqsUpTo(PlainRows, MaxRows)
    /\ posts \in InitialCollections
    /\ terms = NoTerms

\* batches with labels and images, against a small collection
InitRich ==
    /\ rows \in SeqsUpTo(RichRows, MaxRows) \ {<<>>}
    /\ \/ posts = <<>> /\ terms = NoTerms
       \/ /\ posts = <<Post(1, TitleEntity, SlugS, "publish")>>
          /\ terms = [categories |-> <<Term(1, <<"A">>)>>, tags |-> <<>>]

Init ==
    /\ InitLocals
    /\ InitPlain \/ InitRich
    /\ InitClient({ValidClient} \cup InvalidClients)
    /\ InitNormIdle

Next ==
    \/ Start
    \/ CheckConnectivity
    \/ Begin
    \/ SearchTerm
    \/ SleepBeforeCreateTerm
    \/ CreateTerm
    \/ SleepAfterTerm
    \/ UploadMediaStart
    \/ DownloadImage
    \/ SleepBeforeUpload
    \/ UploadMediaPost
    \/ FindPostByTitle
    \/ FindPostBySlug
    \/ SleepBeforeWrite
    \/ UpdatePost
    \/ CreatePost
    \/ Return
    \/ Finish

\* one run of processCsvFile over a batch
Spec == Init /\ [][Next]_vars

-----------------------------------------------------------------------------
(* Two runs of the program over the same batch *)

InitRerun ==
    /\ InitLocals
    /\ rows \in SeqsUpTo(ValidRows, MaxRows)
    /\ posts = <<Fill(perPage * maxPages - 1)>>
    /\ terms = NoTerms
    /\ InitClient({ValidClient})
    /\ InitNormIdle

NextRerun ==
    \/ Start
    \/ CheckConnectivity
    \/ Begin
    \/ FindPostByTitle
    \/ FindPostBySlug
    \/ SleepBeforeWrite
    \/ UpdatePost
    \/ CreatePost
    \/ Return
    \/ Finish
    \/ Rerun

SpecRerun == InitRerun /\ [][NextRerun]_vars

-----------------------------------------------------------------------------
(* One call of findPostByTitle, against a wide range of collections *)

ScanCollections ==
    {<<>>}
    \cup {<<Fill(n)>> : n \in FillSizes \cup {perPage * maxPages + 1}}
    \cup {WithFill(a, <<Post(1, t1, SlugS, st)>>) \o WithFill(b, <<Post(2, t2, SlugX, "draft")>>)
             \o WithFill(c, <<>>) :
             a \in FillSizes \cup {0}, b \in FillSizes \cup {0}, c \in {0, perPage},
             t1 \in {TitleEntity, TitleOther}, t2 \in {TitleEntity, TitleOther},
             st \in Statuses}

InitScan ==
    /\ run = 1
    /\ pc = "scan"
    /\ \E row \in ValidRows :
          /\ rows = <<row>>
          /\ result = NewResult(row, 1)
          /\ postData = BuildPostData(row)
    /\ i = 0
    /\ logResults = <<>>
    /\ taxonomy = ""
    /\ names = <<>>
    /\ termIds = <<>>
    /\ page = 1
    /\ existingPostByTitle = Null
    /\ existingPostId = Null
    /\ calls = <<>>
    /\ posts \in ScanCollections
    /\ nextId = 3
    /\ terms = NoTerms
    /\ media = 0
    /\ summary = NoSummary
    /\ InitClient({ValidClient})
    /\ currentConfig = BuildConfig(ValidClient.entry, ValidClient.environment)
    /\ preflight = <<Call("GET /posts?per_page=1", TRUE)>>
    /\ fetched = <<>>
    /\ downloaded = ""
    /\ fsCalls = <<>>
    /\ exitCode = <<>>
    /\ logFile = <<>>
    /\ progressCallback = FALSE
    /\ events = <<>>
    /\ InitAlone
    /\ InitNormIdle

NextScan == FindPostByTitle

SpecScan == InitScan /\ [][NextScan]_vars

-----------------------------------------------------------------------------
(* normalizeTitle on strings built from fragments of markup and entities *)

Fragments ==
    { <<"<">>, <<">">>, <<"&">>, <<";">>, <<"#">>, <<" ">>, <<"a">>, <<"A">>,
      <<"a", "m", "p", ";">>, <<"n", "b", "s", "p", ";">>, <<"#", "3", "9", ";">> }

RECURSIVE Flatten(_)
Flatten(q) == IF q = <<>> THEN <<>> ELSE Head(q) \o Flatten(Tail(q))

\* the strings made of at most n fragments
StringsUpTo(n) == {Flatten(q) : q \in SeqsUpTo(Fragments, n)}

InitNorm ==
    /\ InitLocals
    /\ rows = <<>>
    /\ posts = <<>>
    /\ terms = NoTerms
    /\ InitClient({ValidClient})
    /\ nIn \in StringsUpTo(MaxFrag)
    /\ nOnce = <<>>
    /\ nTwice = <<>>
    /\ nStage = 0
    /\ dIn = <<>> /\ dOut = <<>> /\ dStage = 1

NextNorm ==
    \/ NormalizeOnce
    \/ NormalizeTwice

SpecNorm == InitNorm /\ [][NextNorm]_vars

-----------------------------------------------------------------------------
(* convertGoogleDriveUrl on share links and on URLs built from fragments *)

MaxUrlFrag == 4
MaxIdLen == 2

DriveHost == <<"https://", "drive.google.com">>
OtherHost == <<"https://", "cdn.example">>

\* file identifiers: the non-empty strings of at most n identifier characters
FileIds(n) == SeqsUpTo({"a", "d", "-", "0"}, n) \ {<<>>}

\* .../file/d/<ID>/view?usp=sharing and .../open?id=<ID>
ShareUrl(id) == DriveHost \o <<"/", "file", "/", "d", "/">> \o id \o <<"/", "view", "?usp=sharing">>
OpenUrl(id) == DriveHost \o <<"/", "open", "?", "i", "d", "=">> \o id

UrlFragments ==
    { <<"/">>, <<"d">>, <<"=">>, <<"a">>, <<"-">>, <<"?">>, <<".">>,
      <<"/", "d", "/">>, <<"i", "d", "=">> }

UrlsUpTo(n) ==
    {host \o Flatten(q) : host \in {DriveHost, OtherHost}, q \in SeqsUpTo(UrlFragments, n)}

ConvertUrl ==
    /\ dStage = 0
    /\ dOut' = convertGoogleDriveUrl(dIn)
    /\ dStage' = 1
    /\ UNCHANGED <<dIn, result, postData, calls>>
    /\ UNCHANGED <<batchVars, pc, termLocals, scanLocals, remoteVars, clientVars, normVars, mediaLocals, mainVars, observerVars, other>>

InitDrive ==
    /\ InitLocals
    /\ rows = <<>>
    /\ posts = <<>>
    /\ terms = NoTerms
    /\ InitClient({ValidClient})
    /\ nIn = <<>> /\ nOnce = <<>> /\ nTwice = <<>> /\ nStage = 2
    /\ dIn \in {<<>>} \cup {ShareUrl(id) : id \in FileIds(MaxIdLen)}
                   \cup {OpenUrl(id) : id \in FileIds(MaxIdLen)}
                   \cup UrlsUpTo(MaxUrlFrag)
    /\ dOut = <<>>
    /\ dStage = 0

NextDrive == ConvertUrl

SpecDrive == InitDrive /\ [][NextDrive]_vars

-----------------------------------------------------------------------------
(* One row with a featured image, through createOrUpdatePost *)

WithImage(row, imagePath, imageUrl) ==
    [row EXCEPT !.featured_image_path = imagePath, !.featured_image_url = imageUrl]

MediaRows ==
    { WithImage(Row(TitleOther, Content, SlugS, ""), <<>>, ImageUrl),
      WithImage(Row(TitleOther, Content, SlugS, ""), <<>>, ShareUrl(<<"a", "d">>)),
      WithImage(Row(TitleOther, Content, SlugS, ""), <<>>, <<" ">> \o OpenUrl(<<"0">>)),
      WithImage(Row(TitleOther, Content, SlugS, ""), ImageFile, <<>>),
      WithImage(Row(TitleOther, Content, SlugS, ""), ShareUrl(<<"-">>), ImageUrl),
      WithImage(Row(TitleUpper, Content, <<>>, "publish"), <<>>, ShareUrl(<<"a", "d">>)) }

\* rows with the SEO columns of the CSV
WithMeta(row, metaTitle, metaDesc, focusKw) ==
    [row EXCEPT !.meta_title = metaTitle, !.meta_description = metaDesc,
                !.focus_keyword = focusKw]

MetaRows ==
    { WithMeta(Row(TitleUpper, Content, <<>>, ""), <<"m">>, <<"d">>, <<"k">>),
      WithMeta(Row(TitleOther, Content, SlugS, ""), <<"m">>, <<" ">>, <<>>) }

InitMedia ==
    /\ InitLocals
    /\ \E row \in MediaRows \cup MetaRows : rows = <<row>>
    /\ posts \in { <<>>,
                   <<Post(1, TitleEntity, SlugS, "publish")>>,
                   <<Post(1, TitleOther, SlugX, "draft")>> }
    /\ terms = NoTerms
    /\ InitClient({ValidClient})
    /\ InitNormIdle

NextMedia ==
    \/ Start
    \/ CheckConnectivity
    \/ Begin
    \/ UploadMediaStart
    \/ DownloadImage
    \/ SleepBeforeUpload
    \/ UploadMediaPost
    \/ FindPostByTitle
    \/ FindPostBySlug
    \/ SleepBeforeWrite
    \/ UpdatePost
    \/ CreatePost
    \/ Return
    \/ Finish

SpecMedia == InitMedia /\ [][NextMedia]_vars

-----------------------------------------------------------------------------
(* The command-line run: main *)

MainRows ==
    { Row(TitleUpper, Content, <<>>, ""),
      Row(TitleOther, Content, SlugS, ""),
      Row(TitleOther, <<>>, <<>>, "") }

InitMain ==
    /\ InitRunState
    /\ InitAlone
    /\ progressCallback = FALSE
    /\ logFile \in {<<>>, PreviousLog}
    /\ rows \in SeqsUpTo(MainRows, MaxRows)
    /\ posts \in { <<>>,
                   <<Post(1, TitleEntity, SlugX, "draft")>>,
                   <<Post(1, TitleMarkup, SlugS, "publish")>> }
    /\ terms = NoTerms
    /\ InitClient({ValidClient} \cup InvalidClients)
    /\ InitNormIdle

NextMain ==
    \/ MainStart
    \/ MainCheckConnectivity
    \/ LoadCsv
    \/ Begin
    \/ FindPostByTitle
    \/ FindPostBySlug
    \/ SleepBeforeWrite
    \/ UpdatePost
    \/ CreatePost
    \/ Return
    \/ MainFinish
    \/ Terminate

SpecMain == InitMain /\ [][NextMain]_vars

-----------------------------------------------------------------------------
(* processCsvFile with and without an observer *)

ObservedRows ==
    MainRows \cup {WithImage(Row(TitleUpper, Content, <<>>, ""), ImageFile, <<>>)}

InitObserver ==
    /\ InitRunState
    /\ InitAlone
    /\ logFile = <<>>
    /\ progressCallback \in BOOLEAN
    /\ rows \in SeqsUpTo(ObservedRows, MaxRows)
    /\ posts \in { <<>>,
                   <<Post(1, TitleEntity, SlugX, "draft")>>,
                   <<Post(1, TitleMarkup, SlugS, "publish")>> }
    /\ terms = NoTerms
    /\ InitClient({ValidClient})
    /\ InitNormIdle

NextObserver ==
    \/ Start
    \/ CheckConnectivity
    \/ Begin
    \/ UploadMediaStart
    \/ SleepBeforeUpload
    \/ UploadMediaPost
    \/ FindPostByTitle
    \/ FindPostBySlug
    \/ SleepBeforeWrite
    \/ UpdatePost
    \/ CreatePost
    \/ Return
    \/ Finish

SpecObserver == InitObserver /\ [][NextObserver]_vars

-----------------------------------------------------------------------------
(* Two invocations of processCsvFile whose awaits overlap *)

InitConcurrent ==
    /\ InitRunState
    /\ logFile = <<>>
    /\ progressCallback = FALSE
    /\ \E n \in 1..MaxRows : other = OtherIdle(n)
    /\ rows \in SeqsUpTo(MainRows, MaxRows) \ {<<>>}
    /\ posts \in {<<>>, <<Post(1, TitleMarkup, SlugS, "publish")>>}
    /\ terms = NoTerms
    /\ InitClient({ValidClient})
    /\ InitNormIdle

NextConcurrent ==
    \/ Start
    \/ CheckConnectivity
    \/ Begin
    \/ FindPostByTitle
    \/ FindPostBySlug
    \/ SleepBeforeWrite
    \/ UpdatePost
    \/ CreatePost
    \/ Return
    \/ Finish
    \/ OtherStart
    \/ OtherRow
    \/ OtherFinish

SpecConcurrent == InitConcurrent /\ [][NextConcurrent]_vars

-----------------------------------------------------------------------------
(* One row with labels, through resolveTerms and getOrCreateTerm *)

WithLabels(row, categories, tags) ==
    [row EXCEPT !.categories = categories, !.tags = tags]

TermStrings ==
    { <<"a", ",", "a">>,
      <<"a", ",", " ", "A", ",">>,
      <<" ", "a", " ", ",", "b", ",", "a">>,
      <<",", " ">>,
      <<"b">> }

TermRows ==
    {WithLabels(Row(TitleOther, Content, <<>>, ""), cs, <<>>) : cs \in TermStrings}
    \cup {WithLabels(Row(TitleOther, Content, <<>>, ""), <<"b">>, <<"b", ",", "b">>)}

InitialTerms ==
    { NoTerms,
      [categories |-> <<Term(1, <<"A">>)>>, tags |-> <<>>],
      [categories |-> <<Term(1, <<"a", "b">>), Term(2, <<"b">>)>>, tags |-> <<>>] }

InitTerms ==
    /\ InitLocals
    /\ \E row \in TermRows : rows = <<row>>
    /\ posts = <<>>
    /\ terms \in InitialTerms
    /\ InitClient({ValidClient})
    /\ InitNormIdle

NextTerms ==
    \/ Start
    \/ CheckConnectivity
    \/ Begin
    \/ SearchTerm
    \/ SleepBeforeCreateTerm
    \/ CreateTerm
    \/ SleepAfterTerm
    \/ FindPostByTitle
    \/ SleepBeforeWrite
    \/ CreatePost
    \/ Return
    \/ Finish

SpecTerms == InitTerms /\ [][NextTerms]_vars

-----------------------------------------------------------------------------
(* Vocabulary of the properties *)

DuplicateMsg == ErrDuplicate(Null).msg

CurrentRow == rows[i + 1]
InRow == pc \notin {"start", "connectivity", "loadCsv", "loop", "done", "aborted", "exited", "killed"}

PageRequests(cs) == {k \in DOMAIN cs : cs[k].op = "GET /posts?page"}
FailedCalls(cs, ops) == {k \in DOMAIN cs : cs[k].op \in ops /\ ~cs[k].ok}
ScanSucceeded(cs) == PageRequests(cs) # {} /\ FailedCalls(cs, {"GET /posts?page"}) = {}
WriteOps == {"POST /posts", "POST /posts/id"}
HelperOps == {"GET /terms?search", "POST /terms", "GET image", "POST /media",
              "GET /posts?page", "GET /posts?slug"}
AuxiliaryOps == {"GET /terms?search", "POST /terms", "GET image", "POST /media"}
WriteIssued(cs) == \E k \in DOMAIN cs : cs[k].op \in WriteOps

\* the resources of ps whose normalised title is that of title, by entry
SameTitle(ps, title) ==
    {k \in DOMAIN ps : ps[k].kind = "post"
                       /\ normalizeTitle(ps[k].title) = normalizeTitle(title)}
\* those among the first perPage * maxPages resources of the listing
SameTitleInReach(ps, title) ==
    {k \in SameTitle(ps, title) : PositionOf(ps, k) <= perPage * maxPages}

\* a step that adds a resource to the primary collection
CreateStep == Total(posts') > Total(posts)

\* C1: once a resource with normalised title T exists (among the first 1000 of
\* the listing, which is as far as the duplicate scan is specified to look), no
\* later row whose normalised title is T results in a create.
C1_AtMostOnePerTitle ==
    [][CreateStep => SameTitleInReach(posts, postData.title) = {}]_vars

\* What the code keeps of C1: a row results in a create only if no resource with
\* its normalised title is among the first 1000 of the listing, or a page
\* request of its duplicate scan failed.
C1_AtMostOnePerTitleInReach ==
    [][CreateStep => \/ SameTitleInReach(posts, postData.title) = {}
                     \/ ~ScanSucceeded(calls)]_vars

\* a row is refused as the duplicate of a resource that an earlier
\* row of the same run created.
C1_Witness ==
    /\ pc = "return"
    /\ result.error.msg = DuplicateMsg
    /\ result.error.id >= 3
    /\ \E k \in DOMAIN logResults : /\ logResults[k].action = "created"
                                    /\ logResults[k].postId = result.error.id

\* C2: a valid row whose normalised title is that of an existing resource (among
\* the first 1000 of the listing) ends with the duplicate error and no action,
\* whatever the status of that resource: once its duplicate scan has run, the
\* row never gets past it.
C2_DuplicateRefused ==
    /\ pc \in {"slug", "sleepWrite", "write"}
       => SameTitleInReach(posts, postData.title) = {}
    /\ (pc = "return" /\ PageRequests(calls) # {}
          /\ SameTitleInReach(posts, CurrentRow.title) # {})
       => (result.error.msg = DuplicateMsg /\ result.action = "null")

\* What the code keeps of C2: a valid row whose normalised title is that of a
\* resource among the first 1000 of the listing and whose scan requests all
\* succeed ends with the duplicate error naming the first such resource and
\* with no action, whatever the status of that resource.
C2_DuplicateRefusedInReach ==
    /\ (pc \in {"slug", "sleepWrite", "write"} /\ ScanSucceeded(calls))
       => SameTitleInReach(posts, postData.title) = {}
    /\ (pc = "return" /\ ValidationError(CurrentRow) = NoError /\ ~WriteIssued(calls)
          /\ ScanSucceeded(calls) /\ SameTitleInReach(posts, CurrentRow.title) # {})
       => /\ result.error
               = ErrDuplicate(posts[SetMin(SameTitleInReach(posts, CurrentRow.title))].id)
          /\ result.action = "null"
          /\ result.postId = Null

\* a row is refused as the duplicate of a resource that is not published
C2_Witness ==
    /\ pc = "return"
    /\ result.error.msg = DuplicateMsg
    /\ \E k \in DOMAIN posts : /\ posts[k].id = result.error.id
                               /\ posts[k].status = "private"
                               /\ posts[k].title # CurrentRow.title

\* the resources that carry slug s / the published ones among them
WithSlug(ps, s) == {k \in DOMAIN ps : ps[k].kind = "post" /\ ps[k].slug = s}
PublishedWithSlug(ps, s) == {k \in WithSlug(ps, s) : ps[k].status = "publish"}

\* a step in which createOrUpdatePost reaches its end for a valid row
RowEnds == pc # "return" /\ pc' = "return" /\ pc # "loop"

\* C3: a valid row that reaches its write, its duplicate scan having found no
\* match and every request of the row having succeeded, ends updated with the
\* identifier of a resource that carries its slug when there is one, and ends
\* created when it has no slug or no resource carries it.
C3_UpdatedOrCreated ==
    [][(pc = "write" /\ calls'[Len(calls')].ok
          /\ FailedCalls(calls, HelperOps) = {}) =>
         IF postData.slug # <<>> /\ WithSlug(posts, postData.slug) # {}
         THEN /\ result'.action = "updated"
              /\ \E k \in WithSlug(posts, postData.slug) : result'.postId = posts[k].id
         ELSE result'.action = "created"]_vars

\* What the code keeps of C3: such a row ends updated, with the identifier of the
\* first published resource that carries its slug, when there is one; it ends
\* created, with the new resource's identifier, when it has no slug or no
\* published resource carries it.
C3_UpdatedOrCreatedAfterScan ==
    [][(pc = "write" /\ calls'[Len(calls')].ok
          /\ FailedCalls(calls, {"GET /posts?slug"}) = {}) =>
         IF postData.slug # <<>> /\ PublishedWithSlug(posts, postData.slug) # {}
         THEN /\ result'.action = "updated"
              /\ result'.postId = posts[SetMin(PublishedWithSlug(posts, postData.slug))].id
              /\ result'.error = NoError
              /\ Total(posts') = Total(posts)
         ELSE /\ result'.action = "created"
              /\ result'.postId \notin PostIds(posts)
              /\ result'.postId \in PostIds(posts')
              /\ result'.error = NoError]_vars

\* a row ends updated against the resource that carries its slug
C3_Witness ==
    /\ pc = "return"
    /\ result.action = "updated"
    /\ \E k \in DOMAIN posts : posts[k].id = result.postId /\ posts[k].slug = Trim(CurrentRow.slug)

\* C4: a row whose title or content is blank ends with the missing-field error
\* and no action, and no remote call is issued for it.
C4_InvalidRowNoCalls ==
    (InRow /\ (Blank(CurrentRow.title) \/ Blank(CurrentRow.content)))
    => /\ pc = "return"
       /\ result.error = (IF Blank(CurrentRow.title) THEN ErrMissingTitle ELSE ErrMissingContent)
       /\ result.action = "null"
       /\ result.postId = Null
       /\ calls = <<>>

\* C4 witness: a row with labels and an image but no title has ended.
C4_Witness ==
    /\ pc = "return"
    /\ result.error = ErrMissingTitle
    /\ CurrentRow.categories # <<>>
    /\ CurrentRow.featured_image_url # <<>>
    /\ i >= 1

\* C5: the summary of a run over N >= 1 rows has N results, the k-th carrying
\* rowNumber k and the title of the k-th row, total = N and success + failed = N.
C5_OneResultPerRow ==
    pc = "done" =>
       /\ Len(rows) >= 1
       /\ Len(summary.results) = Len(rows)
       /\ \A k \in DOMAIN summary.results :
             /\ summary.results[k].rowNumber = k
             /\ summary.results[k].title = NewResult(rows[k], k).title
       /\ summary.total = Len(rows)
       /\ summary.success + summary.failed = Len(rows)
       /\ summary.failed = Cardinality({k \in DOMAIN summary.results :
                                          summary.results[k].error # NoError})

\* C5 witness: a run has returned with a failed row followed by a successful one.
C5_Witness ==
    /\ pc = "done"
    /\ Len(rows) >= 2
    /\ summary.results[1].error # NoError
    /\ summary.results[2].error = NoError

\* the latest call of the row
Last(cs) == cs[Len(cs)]

\* C6 (as stated): every failure of a step after validation is caught by
\* createOrUpdatePost, whose result then carries an error.
C6_EveryFailureSetsError ==
    (pc = "return" /\ FailedCalls(calls, HelperOps \cup WriteOps) # {})
    => result.error # NoError

\* C6 (amended): no failure of a step after validation reaches the batch loop,
\* and the rows that follow are processed.  A failed create or update call, or a
\* throw while reading the local image file, is caught by createOrUpdatePost,
\* whose result carries the message (with the server's payload when there is
\* one) and no action.  A failure of term resolution or of the media download
\* or upload is not an exception of createOrUpdatePost: the helper returns
\* nothing, the row goes on to its duplicate scan, and a row whose later steps
\* succeed ends without error.
C6_FailuresContained ==
    /\ pc = "aborted" => (i = 0 /\ calls = <<>> /\ logResults = <<>>)
    /\ pc = "done" => Len(logResults) = Len(rows)
    /\ (pc = "return" /\ calls # <<>> /\ Last(calls).op \in WriteOps /\ ~Last(calls).ok)
       => (result.error \in {ErrRequest, ErrRequestPayload} /\ result.action = "null")
    /\ (pc = "return" /\ calls # <<>> /\ Last(calls).op \in WriteOps /\ Last(calls).ok)
       => result.error = NoError
    /\ (pc = "return" /\ result.error # ErrReadFile)
       => \A k \in FailedCalls(calls, AuxiliaryOps) : \E j \in PageRequests(calls) : k < j
    /\ (pc = "return" /\ result.error = ErrReadFile) => ~WriteIssued(calls)

\* C6 witness: a row whose write failed with a server payload has been logged,
\* and the row after it has ended without error after a failed helper call.
C6_Witness ==
    /\ pc = "return"
    /\ i >= 1
    /\ logResults[i].error = ErrRequestPayload
    /\ result.error = NoError
    /\ FailedCalls(calls, AuxiliaryOps) # {}
    /\ FailedCalls(calls, HelperOps \ AuxiliaryOps) = {}

\* the first run created a resource for every row (summary is the first run's
\* until the second run returns)
FirstRunCreatedAll ==
    /\ run = 2
    /\ pc # "done"
    /\ summary.total = Len(rows)
    /\ \A k \in DOMAIN summary.results : summary.results[k].action = "created"

\* C7: when the first run created a resource for every row, the
\* second run over the same rows creates nothing.
C7_RerunCreatesNothing ==
    [][FirstRunCreatedAll => Total(posts') = Total(posts)]_vars

\* What the code keeps of C7: when the first run created a resource for every
\* row, a row of the second run whose duplicate-scan requests all succeed, the
\* resource created for it being among the first 1000 of the listing, issues no
\* write: it is refused as a duplicate and the collection is left as it was.
C7_RerunCreatesNothingUnlessScanFails ==
    [][(FirstRunCreatedAll /\ pc = "scan" /\ pc' # "scan" /\ ScanSucceeded(calls')
          /\ SameTitleInReach(posts, postData.title) # {})
       => (pc' = "return" /\ result'.error.msg = DuplicateMsg /\ posts' = posts)]_vars
    /\ [][(FirstRunCreatedAll /\ ScanSucceeded(calls)
          /\ FailedCalls(calls', {"GET /posts?page"}) = {})
       => posts' = posts]_vars

\* in the second run, after a first run that created every row, the
\* last of several rows has been refused as a duplicate.
C7_Witness ==
    /\ FirstRunCreatedAll
    /\ pc = "return"
    /\ i >= 1
    /\ i + 1 = Len(rows)
    /\ result.error.msg = DuplicateMsg
    /\ \A k \in DOMAIN logResults : logResults[k].error.msg = DuplicateMsg
    /\ Total(posts) = perPage * maxPages - 1 + Len(rows)

\* C8: findPostByTitle issues at most 10 page requests, whatever the collection
\* holds, and has returned once the tenth has been answered.
C8_AtMostTenPages ==
    /\ Cardinality(PageRequests(calls)) <= maxPages
    /\ pc = "scan" => (page <= maxPages /\ Cardinality(PageRequests(calls)) = page - 1)

\* C8 witness: the scan has returned after ten page requests, without a match,
\* from a collection that holds a match beyond them.
C8_Witness ==
    /\ pc # "scan"
    /\ Cardinality(PageRequests(calls)) = maxPages
    /\ existingPostByTitle = Null
    /\ SameTitle(posts, postData.title) # {}

\* what the scan is to return: the identifier of the first resource, among the
\* first perPage * maxPages of the listing, with the normalised search title
FirstInReach(ps, title) ==
    IF SameTitleInReach(ps, title) = {} THEN Null
    ELSE ps[SetMin(SameTitleInReach(ps, title))].id

\* C9: findPostByTitle returns the identifier of the first resource
\* among the first 1000 with the normalised search title, null when there is none.
C9_FirstMatchReturned ==
    pc # "scan" => existingPostByTitle = FirstInReach(posts, postData.title)

\* What the code keeps of C9: the same, when every page request of the scan succeeds.
C9_FirstMatchReturnedIfNoFailure ==
    (pc # "scan" /\ ScanSucceeded(calls))
    => existingPostByTitle = FirstInReach(posts, postData.title)

\* of two resources with the search title, on a page after the
\* first, the more recent one is returned.
C9_Witness ==
    /\ pc # "scan"
    /\ Cardinality(SameTitleInReach(posts, postData.title)) = 2
    /\ Cardinality(PageRequests(calls)) = 2
    /\ existingPostByTitle = 1
    /\ posts[SetMin(SameTitle(posts, postData.title))].status = "pending"

\* C10: normalizeTitle is idempotent.
C10_NormalizeIdempotent ==
    nStage = 2 => nTwice = nOnce

\* C10 witness: a string with markup and an encoded ampersand has been
\* normalised twice, both times to the bare ampersand.
C10_Witness ==
    /\ nStage = 2
    /\ Len(nIn) >= 5
    /\ Head(nIn) = "<"
    /\ Contains(nIn, EntAmp)
    /\ nOnce = <<"&">>
    /\ nTwice = <<"&">>

\* a result as createOrUpdatePost returns it: failed, or created / updated
Terminal(r) ==
    \/ r.error # NoError /\ r.action = "null"
    \/ r.error = NoError /\ r.action \in {"created", "updated"}

\* C11: rows are processed one at a time, in source order: while row N + 1 is
\* being processed, and whenever a call or a step is made for it, the rows 1..N
\* have each returned their result, and no call is made outside a row.
C11_RowsInSequence ==
    /\ [](/\ Len(logResults) = (IF pc = "done" THEN Len(rows) ELSE i)
          /\ \A k \in DOMAIN logResults :
                logResults[k].rowNumber = k /\ Terminal(logResults[k])
          /\ InRow => (i < Len(rows) /\ result.rowNumber = i + 1))
    /\ [][calls' # calls =>
            /\ pc' \notin {"start", "connectivity", "done", "aborted"}
            /\ i' = i
            /\ logResults' = logResults
            /\ (calls' # <<>> => InRow /\ result' .rowNumber = i + 1)]_vars

\* C11 witness: the second row issues a remote call after the first row has
\* returned a result that took several calls.
C11_Witness ==
    /\ InRow
    /\ i = 1
    /\ Len(calls) >= 2
    /\ logResults[1].action = "created"
    /\ pc = "write"

\* the calls that change the remote
MutatingOps == {"POST /terms", "POST /media", "POST /posts", "POST /posts/id"}

\* C12: every mutating call of a row (the POST of a term, of a media file, of a
\* post) comes right after a sleep of the configured delay: the entry before it
\* in the row's calls is that sleep.
C12_SleepBeforeEveryPost ==
    \A k \in DOMAIN calls :
       calls[k].op \in MutatingOps => (k > 1 /\ calls[k - 1] = Sleep)

\* C12 witness: a row has issued the three kinds of mutating call.
C12_Witness ==
    /\ pc = "return"
    /\ \A op \in {"POST /terms", "POST /media", "POST /posts"} :
          \E k \in DOMAIN calls : calls[k].op = op
    /\ \E k \in DOMAIN calls : calls[k].op = "GET /terms?search" /\ calls[k + 1] = Sleep

\* the configuration has no site, no user or no password, in the client entry
\* or in the environment
LacksCredentials ==
    \/ clients.wp_site = <<>> /\ env.WP_SITE = <<>>
    \/ clients.wp_user = <<>> /\ env.WP_USER = <<>>
    \/ clients.wp_app_password = <<>> /\ env.WP_APP_PASSWORD = <<>>

PreflightFailed(calls_) == \E k \in DOMAIN calls_ : ~calls_[k].ok

\* C13: when the configuration lacks the site, the user or the password, or the
\* preflight connectivity check fails, the run aborts before any row: no row
\* gets a result, no call is issued for a row and the remote is left as it was.
\* There is one preflight check, and none at all on a missing configuration.
C13_AbortBeforeAnyRow ==
    /\ []((pc # "start" /\ (LacksCredentials \/ PreflightFailed(preflight)))
            => /\ pc = "aborted"
               /\ i = 0
               /\ result = NoResult
               /\ postData = NoPostData
               /\ calls = <<>>
               /\ logResults = <<>>
               /\ summary = NoSummary)
    /\ [](/\ Len(preflight) <= 1
          /\ LacksCredentials => preflight = <<>>)
    /\ [][(LacksCredentials \/ PreflightFailed(preflight'))
            => (posts' = posts /\ terms' = terms /\ media' = media /\ calls' = <<>>)]_vars

\* C13 witness: a run over a full batch has aborted on a configuration whose
\* site and user are set and whose password is not.
C13_Witness ==
    /\ pc = "aborted"
    /\ Len(rows) = MaxRows
    /\ ValidationError(rows[1]) = NoError
    /\ LacksCredentials
    /\ Or(clients.wp_site, env.WP_SITE) # <<>>
    /\ Or(clients.wp_user, env.WP_USER) # <<>>

\* the labels of the row that resolved, counted on its calls: a search that
\* succeeded and was not followed by a create, or a create that succeeded
ResolvedLabels(cs) ==
    {k \in DOMAIN cs :
        \/ cs[k].op = "POST /terms" /\ cs[k].ok
        \/ /\ cs[k].op = "GET /terms?search" /\ cs[k].ok
           /\ ~(k + 2 <= Len(cs) /\ cs[k + 2].op = "POST /terms")}

StepFails(ops) ==
    /\ Len(calls') = Len(calls) + 1
    /\ Last(calls').op \in ops
    /\ ~Last(calls').ok

\* C14: a failed label search or create, a missing local image file, a failed
\* image download or a failed upload does not fail the row: the step leaves the
\* result without error and the row goes on; it reaches its duplicate scan with
\* a payload that carries one identifier per label that resolved, and a featured
\* media identifier only if an upload succeeded.
C14_AuxiliaryFailuresTolerated ==
    /\ [][(StepFails(AuxiliaryOps) \/ (pc = "media" /\ pc' = "scan"))
            => /\ result' = result
               /\ result'.error = NoError
               /\ pc' \in {"termSleep", "scan"}
               /\ postData' = postData]_vars
    /\ [](pc \in {"scan", "slug", "sleepWrite", "write"}
            => /\ result.error = NoError
               /\ Len(postData.categories) + Len(postData.tags)
                     = Cardinality(ResolvedLabels(calls))
               /\ (postData.featured_media # Null)
                     <=> (\E k \in DOMAIN calls : calls[k] = Call("POST /media", TRUE)))

\* C14 witness: a row whose label search and whose upload both failed has been
\* created, one label resolved, without featured media.
C14_Witness ==
    /\ pc = "return"
    /\ result.action = "created"
    /\ \E k \in DOMAIN calls : calls[k] = Call("GET /terms?search", FALSE)
    /\ \E k \in DOMAIN calls : calls[k] = Call("POST /media", FALSE)
    /\ Len(postData.categories) = 1
    /\ postData.featured_media = Null

\* the URL holds /d/ or id= followed by an identifier character
HasDrivePattern(url) ==
    \E k \in DOMAIN url :
       /\ k + 3 <= Len(url)
       /\ SubSeq(url, k, k + 2) \in {<<"/", "d", "/">>, <<"i", "d", "=">>}
       /\ url[k + 3] \in IdChars

\* C15: convertGoogleDriveUrl turns the share link .../file/d/<ID>/view?usp=sharing
\* into https://drive.google.com/uc?export=download&id=<ID>, with the whole
\* <ID> and nothing else, and returns a URL without /d/<id> or id=<id> as it is.
C15_DriveUrlConverted ==
    dStage = 1 =>
       /\ \A id \in FileIds(MaxIdLen) : dIn = ShareUrl(id) => dOut = DirectDownload(id)
       /\ ~HasDrivePattern(dIn) => dOut = dIn

\* C15 witness: a share link whose identifier holds a d and a hyphen has been
\* converted.
C15_Witness ==
    /\ dStage = 1
    /\ dIn = ShareUrl(<<"d", "-">>)
    /\ dOut # dIn
    /\ Len(dOut) = 11

\* a cloud-drive share link: a URL of the drive host with /d/<id> or id=<id>
IsShareLink(url) == Contains(url, <<"drive.google.com">>) /\ HasDrivePattern(url)

\* C16: when the featured image of a row is a cloud-drive share link, the
\* download of its media ingest is issued against the rewritten direct-download
\* URL, never against the share link.
C16_DownloadFromDirectUrl ==
    (InRow /\ fetched # <<>> /\ IsShareLink(ImagePath(CurrentRow)))
    => /\ fetched = convertGoogleDriveUrl(ImagePath(CurrentRow))
       /\ fetched # ImagePath(CurrentRow)

\* C17: when the download answers with content type text/html the ingest yields
\* no asset: the row goes on to its duplicate scan without featured media, and
\* no POST to the media endpoint is issued for the downloaded page.
C17_HtmlYieldsNoAsset ==
    /\ [][(downloaded = "" /\ downloaded' = "text/html")
            => (pc' = "scan" /\ postData'.featured_media = Null)]_vars
    /\ [][(Len(calls') = Len(calls) + 1 /\ Last(calls').op = "POST /media")
            => downloaded # "text/html"]_vars

\* the labels of the taxonomy under resolution, and how many of them
\* getOrCreateTerm has returned for
Labels == TermNames(CurrentRow[taxonomy])

Processed == Len(Labels) - Len(names) + 1

\* positions, on the row's calls, of the searches of the taxonomy under resolution
SearchCalls ==
    LET all == SelectSeq([k \in DOMAIN calls |-> k],
                         LAMBDA k : calls[k].op = "GET /terms?search")
        before == IF taxonomy = "tags" THEN Len(TermNames(CurrentRow.categories)) ELSE 0
    IN  SubSeq(all, before + 1, Len(all))

\* the j-th label resolved: its search succeeded and the create that followed,
\* if one did, succeeded
LabelResolved(j) ==
    LET k == SearchCalls[j]
    IN  /\ calls[k].ok
        /\ (k + 2 <= Len(calls) /\ calls[k + 2].op = "POST /terms") => calls[k + 2].ok

\* identifier of the term of the taxonomy named by the label, case-insensitively
TermIdOf(label) == ExistingTerm(terms[taxonomy], label)

IdsOf(positions) ==
    LET ids == [j \in 1..Processed |-> IF j \in positions THEN TermIdOf(Labels[j]) ELSE Null]
    IN  SelectSeq(ids, LAMBDA id : id # Null)

AfterLabel == InRow /\ pc = "termSleep"

\* C18 (as stated): resolveTerms collects, in label order, one identifier per
\* distinct non-empty trimmed label that resolves; a repeated label contributes
\* a single identifier.
C18_OneIdPerDistinctLabel ==
    AfterLabel
    => termIds = IdsOf({j \in 1..Processed :
                           /\ LabelResolved(j)
                           /\ \A h \in 1..(j - 1) : LabelResolved(h) => Labels[h] # Labels[j]})

\* C18 (what the code keeps): resolveTerms collects, in label order, one
\* identifier per occurrence of a non-empty trimmed label that resolves; blank
\* labels contribute none and labels that fail to resolve are skipped.
C18_OneIdPerResolvedOccurrence ==
    AfterLabel
    => /\ Processed = Len(SearchCalls)
       /\ termIds = IdsOf({j \in 1..Processed : LabelResolved(j)})

\* C18 witness: the label string " a ,b,a" has been resolved to the end and
\* every label resolved: the repeated label a contributed its identifier twice.
C18_Witness ==
    /\ AfterLabel
    /\ Labels = <<<<"a">>, <<"b">>, <<"a">>>>
    /\ Processed = 3
    /\ \A j \in 1..3 : LabelResolved(j)
    /\ Len(termIds) = 3
    /\ termIds[1] = termIds[3]
    /\ termIds[1] # termIds[2]

\* the calls of the label getOrCreateTerm returned for last, from its search on
LabelCalls == SubSeq(calls, SearchCalls[Processed], Len(calls))

CountOp(cs, op) == Cardinality({k \in DOMAIN cs : cs[k].op = op})

\* the terms of the taxonomy as they were when the label was searched: a term
\* the label's own create added comes last
TermsAtSearch ==
    LET ts == terms[taxonomy]
    IN  IF \E k \in DOMAIN LabelCalls : LabelCalls[k] = Call("POST /terms", TRUE)
        THEN SubSeq(ts, 1, Len(ts) - 1)
        ELSE ts

\* the terms the search returned whose name equals the label case-insensitively
ReturnedEqual ==
    LET label == Labels[Processed]
        data == ServerSearchTerms(TermsAtSearch, label)
    IN  {data[k].id : k \in {h \in DOMAIN data : ToLowerCase(data[h].name) = ToLowerCase(label)}}

\* C19: getOrCreateTerm issues exactly one search per label, and a create for
\* the label if and only if the search succeeded and returned no term whose
\* name equals the trimmed label case-insensitively; a returned equal term is
\* reused and nothing is created.
C19_SearchOnceCreateOnMiss ==
    AfterLabel
    => /\ Len(SearchCalls) = Processed
       /\ CountOp(LabelCalls, "GET /terms?search") = 1
       /\ CountOp(LabelCalls, "POST /terms")
             = (IF Head(LabelCalls).ok /\ ReturnedEqual = {} THEN 1 ELSE 0)
       /\ (Head(LabelCalls).ok /\ ReturnedEqual # {})
             => /\ termIds # <<>>
                /\ Last(termIds) \in ReturnedEqual
                /\ TermsAtSearch = terms[taxonomy]

\* C19 witness: of the labels "a, A," the first was searched, missed and created,
\* the second was searched and found the term a, whose identifier is reused: two
\* searches and one create.
C19_Witness ==
    /\ AfterLabel
    /\ Labels = <<<<"a">>, <<"A">>>>
    /\ Processed = 2
    /\ CountOp(calls, "GET /terms?search") = 2
    /\ CountOp(calls, "POST /terms") = 1
    /\ Len(terms.categories) = 1
    /\ terms.categories[1].name = <<"a">>
    /\ termIds = <<terms.categories[1].id, terms.categories[1].id>>

\* the run ended by a call of process.exit
Exited == pc = "exited" /\ exitCode # <<>>

AllRowsProcessed == Len(rows) > 0 /\ i = Len(rows) /\ Len(logResults) = Len(rows)

SomeRowFailed == \E k \in DOMAIN logResults : logResults[k].error # NoError

\* C20: a run of main that processed its rows ends with a non-zero exit code if
\* and only if the result of at least one row carries an error, and with exit
\* code zero when all rows were processed and none failed.
C20_ExitCodeFollowsRows ==
    (Exited /\ AllRowsProcessed) => (exitCode # <<0>> <=> SomeRowFailed)

\* C20 (what the code keeps): the exit code is non-zero exactly when a row
\* failed, the configuration, the connectivity check or loadCsv stopped the run
\* before its first row, or the write of the log file threw.
C20_ExitCodeFollowsRowsAndRun ==
    Exited
    => (exitCode # <<0>>
          <=> \/ SomeRowFailed
              \/ currentConfig = NoConfig
              \/ \E k \in DOMAIN preflight : ~preflight[k].ok
              \/ \E k \in DOMAIN fsCalls : ~fsCalls[k].ok)

\* the writes of the log file the run has attempted
LogWrites == {k \in DOMAIN fsCalls : fsCalls[k].op = "writeFileSync"}

RunEnded == pc \in {"done", "exited"} /\ AllRowsProcessed

\* C21: at the end of a run the result list is written once to the log file,
\* and a failed write is tolerated by processCsvFile and by main alike: the
\* summary of the run is still reported with its total, success and failed
\* counts, and the exit code of main follows the row results alone.
C21_LogWriteTolerated ==
    RunEnded
    => /\ Cardinality(LogWrites) = 1
       /\ summary.total = Len(rows)
       /\ summary.failed = CountOf(logResults, TRUE)
       /\ summary.success + summary.failed = summary.total
       /\ pc = "exited" => exitCode = (IF SomeRowFailed THEN <<1>> ELSE <<0>>)

\* C21 (what the code keeps): processCsvFile tolerates the failed write and
\* returns its summary.
C21_LogWriteToleratedByProcessCsvFile ==
    (pc = "done" /\ AllRowsProcessed)
    => /\ Cardinality(LogWrites) = 1
       /\ summary.total = Len(rows)
       /\ summary.failed = CountOf(logResults, TRUE)
       /\ summary.success + summary.failed = summary.total

\* C22 (as stated): when the process is terminated after k rows have produced
\* their result, the log file on disk holds exactly those k results.
C22_LogReflectsCompletedRows ==
    pc = "killed" => logFile = logResults

\* C22 (what the code keeps): the log file is written only after the last row,
\* with the full result list; a run terminated before that has attempted no
\* write, and the file is what it was when the run started.
C22_LogWrittenOnlyAtEnd ==
    /\ [][logFile' # logFile
            => /\ pc = "loop" /\ i = Len(rows) /\ Len(logResults) = Len(rows)
               /\ logFile' = logResults]_vars
    /\ [][pc' = "killed" => logFile' = logFile]_vars
    /\ [](pc = "killed" => LogWrites = {})

\* C22 witness: the run was terminated after the first of two rows had produced
\* its result; the log file is still the one an earlier run left.
C22_Witness ==
    /\ pc = "killed"
    /\ Len(rows) = 2
    /\ Len(logResults) = 1
    /\ logFile = PreviousLog
    /\ logFile # logResults

\* the payload carries the value under every one of the keys
Carries(data, keys, value) ==
    \A key \in keys : key \in DOMAIN data /\ data[key] = value

\* the payload has none of the keys
Omits(data, keys) == \A key \in keys : key \notin DOMAIN data

TitleKeys == {"meta_title", "_yoast_wpseo_title", "rank_math_title"}
DescriptionKeys == {"meta_description", "_yoast_wpseo_metadesc", "rank_math_description"}
KeywordKeys == {"_yoast_wpseo_focuskw", "rank_math_focus_keyword"}

PassedThrough(data, keys, value) ==
    IF Blank(value) THEN Omits(data, keys) ELSE Carries(data, keys, value)

\* C23: the payload createOrUpdatePost writes carries a non-blank meta_title,
\* meta_description and focus_keyword of the row under their top-level keys,
\* and omits the keys of a blank field.
C23_MetaFieldsPassedThrough ==
    (InRow /\ pc = "write")
    => /\ PassedThrough(postData, TitleKeys, CurrentRow.meta_title)
       /\ PassedThrough(postData, DescriptionKeys, CurrentRow.meta_description)
       /\ PassedThrough(postData, KeywordKeys, CurrentRow.focus_keyword)

\* the row-level events the observer has received
RowEvents == SelectSeq(events, LAMBDA e : e.type # "info")

\* the results createOrUpdatePost has completed, the one about to be returned
\* included
CompletedResults == logResults \o (IF pc = "return" THEN <<result>> ELSE <<>>)

\* C24: with an observer attached, every row emits exactly one row-level
\* event, success when its result has no error and error otherwise, and emits
\* it before the next row starts: at every moment the row-level events are
\* those of the completed rows, one each, in row order.  Without an observer
\* nothing is emitted.
C24_OneEventPerRow ==
    IF progressCallback
    THEN /\ Len(RowEvents) = Len(CompletedResults)
         /\ \A k \in DOMAIN RowEvents :
               /\ RowEvents[k].rowNumber = k
               /\ RowEvents[k].type
                     = (IF CompletedResults[k].error = NoError THEN "success" ELSE "error")
    ELSE events = <<>>

\* C24 witness: an observed run of two rows has ended; the first row failed
\* and the second was created, and the observer received error, then success.
C24_Witness ==
    /\ progressCallback
    /\ pc = "done"
    /\ Len(logResults) = 2
    /\ logResults[1].error # NoError
    /\ logResults[2].action = "created"
    /\ RowEvents = <<Event("error", 1), Event("success", 2)>>

\* the duplicate scan of the current row has returned a match
ScanMatched == InRow /\ existingPostByTitle # Null

\* C25: when the duplicate scan of a row returns a match, the row ends there
\* with the duplicate error: it issues no create and no update, and the primary
\* collection is not changed by that row.
C25_MatchLeavesCollectionUnchanged ==
    /\ [](ScanMatched
            => /\ pc = "return"
               /\ ~WriteIssued(calls)
               /\ result.error = ErrDuplicate(existingPostByTitle)
               /\ result.action = "null")
    /\ [][ScanMatched' => (posts' = posts /\ nextId' = nextId)]_vars
    /\ [][posts' # posts => existingPostByTitle = Null]_vars

\* C25 witness: the second row of a batch is refused as the duplicate of the
\* resource the first row created; no write was issued for it and the
\* collection holds that one resource.
C25_Witness ==
    /\ ScanMatched
    /\ i = 1
    /\ logResults[1].action = "created"
    /\ existingPostByTitle = logResults[1].postId
    /\ ~WriteIssued(calls)
    /\ Len(posts) = 1

\* positions of the row's create and update requests on its calls
Writes(cs) == {k \in DOMAIN cs : cs[k].op \in WriteOps}

CalledBefore(cs, k, op) == \E h \in 1..(k - 1) : cs[h].op = op

\* C26: a row issues at most one create-or-update request on the primary
\* collection; nothing follows it, whether it failed or not; and it is issued
\* only after the duplicate scan and, for a payload with a slug, the slug
\* lookup of the row have returned.
C26_OneWriteAfterLookups ==
    InRow
    => /\ Cardinality(Writes(calls)) <= 1
       /\ \A k \in Writes(calls) :
             /\ k = Len(calls)
             /\ pc = "return"
             /\ CalledBefore(calls, k, "GET /posts?page")
             /\ postData.slug # <<>> => calls[k - 2].op = "GET /posts?slug"
             /\ postData.slug = <<>> => calls[k - 2].op = "GET /posts?page"

\* C26 witness: the create request of a row with a slug failed, after the scan
\* and the slug lookup; the row ends with the error and no second request.
C26_Witness ==
    /\ pc = "return"
    /\ postData.slug # <<>>
    /\ Last(calls) = Call("POST /posts", FALSE)
    /\ CalledBefore(calls, Len(calls), "GET /posts?slug")
    /\ result.error # NoError
    /\ Cardinality(Writes(calls)) = 1

\* the summary holds one result per row of the invocation, in row order, and
\* its counts add up
OwnResults(sm, n, titleOf(_)) ==
    /\ sm.total = n
    /\ Len(sm.results) = sm.total
    /\ sm.success + sm.failed = sm.total
    /\ \A k \in DOMAIN sm.results :
          sm.results[k].rowNumber = k /\ sm.results[k].title = titleOf(k)

RowTitle(k) == NewResult(rows[k], k).title
OtherTitle(k) == OtherResult(k).title

\* C27: when two invocations of processCsvFile overlap at their awaits, the
\* summary each of them returns holds exactly the results of its own rows,
\* with results.length = total and success + failed = total.
C27_SummariesKeptApart ==
    /\ pc = "done" => OwnResults(summary, Len(rows), RowTitle)
    /\ other.pc = "done" => OwnResults(other.summary, other.n, OtherTitle)

\* the two terminal shapes of a result
Succeeded(res) ==
    /\ res.error = NoError
    /\ res.action \in {"created", "updated"}
    /\ res.postId # Null
    /\ res.status \in Statuses

Failed(res) ==
    /\ res.error # NoError
    /\ res.action = "null"
    /\ res.postId = Null
    /\ res.status = "null"

\* the resource the server answered the write with
Answered(res) ==
    \E k \in DOMAIN posts :
       /\ posts[k].kind = "post"
       /\ posts[k].id = res.postId
       /\ posts[k].status = res.status

\* C28: every result createOrUpdatePost returns is in exactly one terminal
\* state: without error, with action created or updated and the identifier and
\* status of the server's response; or with an error and with action, postId
\* and status all null.
C28_ResultTerminal ==
    /\ pc = "return"
       => /\ Succeeded(result) \/ Failed(result)
          /\ Succeeded(result) => Answered(result)
    /\ \A k \in DOMAIN logResults : Succeeded(logResults[k]) \/ Failed(logResults[k])

\* C28 witness: the first row of a batch failed on its write and the second is
\* about to return as updated, with the identifier and status the server holds.
C28_Witness ==
    /\ pc = "return"
    /\ Len(logResults) = 1
    /\ Failed(logResults[1])
    /\ logResults[1].error \in {ErrRequest, ErrRequestPayload}
    /\ Succeeded(result)
    /\ result.action = "updated"
    /\ Answered(result)

\* a page request of the duplicate scan fails in this step
ScanRequestFails ==
    pc = "scan" /\ calls' = Append(calls, Call("GET /posts?page", FALSE))

ScanRequestFailed(cs) == \E k \in DOMAIN cs : cs[k] = Call("GET /posts?page", FALSE)

\* C29: when a page request of the duplicate scan fails, findPostByTitle
\* returns null and the row is not failed: createOrUpdatePost goes on to the
\* slug lookup (for a payload with a slug) and to the create-or-update request.
C29_ScanFailureFailsOpen ==
    /\ [][ScanRequestFails
            => /\ existingPostByTitle' = Null
               /\ result' = result
               /\ result'.error = NoError
               /\ pc' = (IF postData.slug # <<>> THEN "slug" ELSE "sleepWrite")]_vars
    /\ []((pc = "return" /\ ScanRequestFailed(calls))
            => /\ WriteIssued(calls)
               /\ postData.slug # <<>> => CalledBefore(calls, Len(calls), "GET /posts?slug")
               /\ result.error \notin {ErrDuplicate(id) : id \in PostIds(posts)})

\* C29 witness: the page request of a row failed although the collection
\* holds a resource with the row's title; the row was created.
C29_Witness ==
    /\ pc = "return"
    /\ ScanRequestFailed(calls)
    /\ result.action = "created"
    /\ Cardinality(SameTitle(posts, CurrentRow.title)) = 2

====
